---- MODULE Spec2Model ----
(***************************************************************************)
(* A model of the fair-universe data generators.                           *)
(*                                                                         *)
(*  - DataGenerator (Data_Generator_2D/data_generator_all_systematics.py   *)
(*    and Data_Generator/data_generator_mix.py): construction from a       *)
(*    settings dictionary, generate_data, get_data, save_data.             *)
(*  - The weighted train/test partitioner of                               *)
(*    Competition_Bundle_HEP/datagen_temp.py.                              *)
(*                                                                         *)
(* Real numbers are modelled exactly: coordinates are integers, angles are *)
(* multiples of 90 degrees, the background fraction p_b is a count of      *)
(* millionths, weights are integers and rescaled weights are fractions.    *)
(* Sampling (Gaussian.generate_points, Gamma.generate_points,              *)
(* train_test_split) is a nondeterministic choice.                         *)
(***************************************************************************)
EXTENDS Integers, Sequences, FiniteSets, TLC

VARIABLES
    variant,    \* the source file running: "all_systematics", "mix" or "datagen_temp"
    settings,   \* the settings dictionary handed to the constructor (mutated in place)
    self,       \* the fields of the DataGenerator object
    phase,      \* "unconfigured", "configured", "aborted" (exit() was called)
    last,       \* the last call: its name, its outcome, its log, its samples, what it returned
    fs,         \* the file system: directories made and files written
    hep         \* datagen_temp.py: its position (pc) and its local variables

vars == <<variant, settings, self, phase, last, fs, hep>>

(***************************************************************************)
(* constants.py                                                            *)
(***************************************************************************)
DISTRIBUTION_GAUSSIAN == "Gaussian"
DISTRIBUTION_GAMMA == "Gamma"
DISTRIBUTION_POISSON == "Poisson"
SYSTEMATIC_TRANSLATION == "Translation"
SYSTEMATIC_SCALING == "Scaling"
SYSTEMATIC_BOX == "Box"
SYSTEMATIC_ROTATION == "Rotation"
SIGNAL_LABEL == 1
BACKGROUND_LABEL == 0

\* Python's None, and the test `x is None`.
None == [name |-> "None"]

(***************************************************************************)
(* Bounds of the model.                                                    *)
(***************************************************************************)
\* generate_data is explored only for generators of at most MaxRows events.
MaxRows == 2
\* Every systematics list of at most MaxSyst descriptors is explored (and
\* every order of the four enabled descriptors, see OrderedLists).
MaxSyst == 2

(***************************************************************************)
(* Arithmetic helpers.                                                     *)
(***************************************************************************)
Abs(x) == IF x < 0 THEN -x ELSE x

\* np.cos(np.radians(d)) and np.sin(np.radians(d)) for d a multiple of 90.
CosDeg(d) == CASE d % 360 = 0 -> 1
               [] d % 360 = 90 -> 0
               [] d % 360 = 180 -> -1
               [] d % 360 = 270 -> 0

SinDeg(d) == CASE d % 360 = 0 -> 0
               [] d % 360 = 90 -> 1
               [] d % 360 = 180 -> 0
               [] d % 360 = 270 -> -1

\* p_b and p_s are counts of millionths.
PbScale == 10^6

\* round(x, ndigits) of a value given in millionths: to the nearest multiple of
\* 10^(6 - ndigits) millionths, a tie going to the even neighbour.
RoundDigits == 5

Round(xMicro, ndigits) ==
    LET unit == 10^(6 - ndigits)
        q == xMicro \div unit
        r == xMicro % unit
        up == \/ 2 * r > unit
              \/ (2 * r = unit /\ q % 2 = 1)
    IN  (IF up THEN q + 1 ELSE q) * unit

\* int(n * p) for p in millionths: truncation of the product (both factors >= 0).
IntTimes(n, pMicro) == (n * pMicro) \div PbScale

(***************************************************************************)
(* Dictionaries.                                                           *)
(***************************************************************************)
\* d.get(k, default)
Get(d, k, default) == IF k \in DOMAIN d THEN d[k] ELSE default

\* d[k] = v
Put(d, k, v) == [x \in DOMAIN d \cup {k} |-> IF x = k THEN v ELSE d[x]]

(***************************************************************************)
(* DataGenerator.__init__                                                  *)
(***************************************************************************)
\* The data members as first assigned, before the settings are read.
SelfInit ==
    [ signal_distribution |-> None,
      background_distribution |-> None,
      systematic_translation |-> None,
      systematic_scaling |-> None,
      systematic_box |-> None,
      systematic_rotation |-> None,
      systematics_loaded |-> FALSE,
      generated_data |-> None,
      generated_labels |-> None,
      biased_data |-> None,
      biased_labels |-> None,
      problem_dimension |-> None,
      ps |-> None,
      pb |-> None,
      total_number_of_events |-> None,
      number_of_background_events |-> None,
      number_of_signal_events |-> None,
      apply_copula |-> FALSE,
      alpha |-> None,
      beta |-> None ]

\* self.ps of data_generator_all_systematics.py: round(1 - self.pb, 5).
SignalFractionRounded(pb) == Round(PbScale - pb, RoundDigits)

\* self.ps of data_generator_mix.py: 1 - self.pb.
SignalFractionExact(pb) == PbScale - pb

\* Problem dimension, fractions and event counts.
LoadParameters(obj, s, ps) ==
    [obj EXCEPT !.problem_dimension = s.problem_dimension,
                !.total_number_of_events = s.total_number_of_events,
                !.pb = s.p_b,
                !.ps = ps,
                !.number_of_signal_events = IntTimes(s.total_number_of_events, ps),
                !.number_of_background_events = IntTimes(s.total_number_of_events, s.p_b)]

\* The copula switch and the two parameters of the Gamma distribution.
LoadCopula(obj, s) ==
    [obj EXCEPT !.apply_copula = Get(s, "apply_copula", FALSE),
                !.alpha = Get(s, "alpha", None),
                !.beta = Get(s, "beta", None)]

\* The background distribution of all_systematics: Gaussian, Gamma, or left None.
LoadBackground(s) ==
    LET background_dist == s.background_distribution
    IN  IF background_dist.name = DISTRIBUTION_GAUSSIAN
        THEN [name |-> DISTRIBUTION_GAUSSIAN,
              mu |-> background_dist.mu,
              sigma |-> background_dist.sigma,
              generator |-> s.generator,
              angle_rotation |-> Get(s, "angle_rotation", 0)]
        ELSE IF background_dist.name = DISTRIBUTION_GAMMA
        THEN [name |-> DISTRIBUTION_GAMMA,
              k |-> background_dist.k,
              _theta_ |-> background_dist._theta_]
        ELSE None

\* Mutant: the signal derived from any Gaussian background, whatever
\* signal_from_background says.
SignalIsDerivedUnasked(s) == s.background_distribution.name = DISTRIBUTION_GAUSSIAN

\* Whether the signal is derived from the background.
SignalIsDerived(s) ==
    s.signal_from_background /\ s.background_distribution.name = DISTRIBUTION_GAUSSIAN

\* Sigmas and the scale are counts of tenths: np.multiply(sigma, signal_sigma_scale).
SigmaScaled(sigma, scale) == [i \in DOMAIN sigma |-> (sigma[i] * scale) \div 10]

\* background mean plus L at angle theta.
SignalMu(mu, L, theta) == <<mu[1] + L * CosDeg(theta), mu[2] + L * SinDeg(theta)>>

\* The signal distribution of all_systematics and the box center: [dist, box_center].
LoadSignal(s) ==
    IF SignalIsDerived(s)
    THEN LET background_dist == s.background_distribution
             signal_mu == SignalMu(background_dist.mu, s.L, s.theta)
         IN  [dist |-> [name |-> DISTRIBUTION_GAUSSIAN,
                        mu |-> signal_mu,
                        sigma |-> SigmaScaled(background_dist.sigma, s.signal_sigma_scale),
                        generator |-> s.generator,
                        angle_rotation |-> -Get(s, "angle_rotation", 0)],
              box_center |-> signal_mu]
    ELSE LET signal_dist == s.signal_distribution
         IN  IF signal_dist.name = DISTRIBUTION_GAUSSIAN
             THEN [dist |-> [name |-> DISTRIBUTION_GAUSSIAN,
                             mu |-> signal_dist.mu,
                             sigma |-> signal_dist.sigma,
                             generator |-> s.generator,
                             angle_rotation |-> -Get(s, "angle_rotation", 0)],
                   box_center |-> signal_dist.mu]
             ELSE [dist |-> None, box_center |-> <<0, 0>>]

\* Mutants of the enablement rules: Scaling from a factor of 1, Box from any
\* positive length.
ScalingEnabledFromOne(systematic) == systematic.scaling_factor >= 1

BoxEnabledPositive(systematic) == systematic.box_l > 0

\* The enablement rules of the systematics loop.
ScalingEnabled(systematic) == systematic.scaling_factor > 1

BoxEnabled(systematic) == systematic.box_l > 1

RotationEnabled(systematic) == systematic.rotation_degree # 0

\* z = z_magnitude * (cos(alpha), sin(alpha))
\* Mutant: cosine and sine exchanged.
TranslationVectorSwapped(systematic) ==
    <<SinDeg(systematic.alpha) * systematic.z_magnitude,
      CosDeg(systematic.alpha) * systematic.z_magnitude>>

TranslationVector(systematic) ==
    <<CosDeg(systematic.alpha) * systematic.z_magnitude,
      SinDeg(systematic.alpha) * systematic.z_magnitude>>

\* Mutant of the loop body: a descriptor that fails its enablement rule unsets
\* the operator of its kind.
LoadSystematicUnsetting(obj, systematic, box_center) ==
    LET o1 == IF systematic.name = SYSTEMATIC_TRANSLATION
              THEN [obj EXCEPT !.systematic_translation =
                        [name |-> SYSTEMATIC_TRANSLATION,
                         allowed_dimension |-> -1,
                         translation_vector |-> <<CosDeg(systematic.alpha) * systematic.z_magnitude,
                                                  SinDeg(systematic.alpha) * systematic.z_magnitude>>]]
              ELSE obj
        o2 == IF systematic.name = SYSTEMATIC_SCALING
              THEN [o1 EXCEPT !.systematic_scaling =
                        IF systematic.scaling_factor > 1
                        THEN [name |-> SYSTEMATIC_SCALING,
                              allowed_dimension |-> -1,
                              scaling_vector |-> <<systematic.scaling_factor,
                                                   systematic.scaling_factor>>]
                        ELSE None]
              ELSE o1
        o3 == IF systematic.name = SYSTEMATIC_BOX
              THEN [o2 EXCEPT !.systematic_box =
                        IF systematic.box_l > 1
                        THEN [name |-> SYSTEMATIC_BOX,
                              box_center |-> box_center,
                              box_length |-> systematic.box_l]
                        ELSE None]
              ELSE o2
        o4 == IF systematic.name = SYSTEMATIC_ROTATION
              THEN [o3 EXCEPT !.systematic_rotation =
                        IF systematic.rotation_degree # 0
                        THEN [name |-> SYSTEMATIC_BOX,
                              rotation_degree |-> systematic.rotation_degree]
                        ELSE None]
              ELSE o3
    IN  o4

\* One pass of the loop body over descriptor `systematic`.
LoadSystematic(obj, systematic, box_center) ==
    LET o1 == IF systematic.name = SYSTEMATIC_TRANSLATION
              THEN [obj EXCEPT !.systematic_translation =
                        [name |-> SYSTEMATIC_TRANSLATION,
                         allowed_dimension |-> -1,
                         translation_vector |-> TranslationVector(systematic)]]
              ELSE obj
        o2 == IF systematic.name = SYSTEMATIC_SCALING /\ ScalingEnabled(systematic)
              THEN [o1 EXCEPT !.systematic_scaling =
                        [name |-> SYSTEMATIC_SCALING,
                         allowed_dimension |-> -1,
                         scaling_vector |-> <<systematic.scaling_factor,
                                              systematic.scaling_factor>>]]
              ELSE o1
        o3 == IF systematic.name = SYSTEMATIC_BOX /\ BoxEnabled(systematic)
              THEN [o2 EXCEPT !.systematic_box =
                        [name |-> SYSTEMATIC_BOX,
                         box_center |-> box_center,
                         box_length |-> systematic.box_l]]
              ELSE o2
        o4 == IF systematic.name = SYSTEMATIC_ROTATION /\ RotationEnabled(systematic)
              THEN [o3 EXCEPT !.systematic_rotation =
                        [name |-> SYSTEMATIC_BOX,
                         rotation_degree |-> systematic.rotation_degree]]
              ELSE o3
    IN  o4

\* for systematic in systematics: ...
RECURSIVE LoadSystematics(_, _, _, _)
LoadSystematics(obj, systematics, i, box_center) ==
    IF i > Len(systematics)
    THEN obj
    ELSE LoadSystematics(LoadSystematic(obj, systematics[i], box_center),
                         systematics, i + 1, box_center)

\* __init__ of data_generator_all_systematics.py:
\* [self, settings, outcome, log], outcome "ok", "exit" or "KeyError".
InitAllSystematics(s) ==
    LET s1 == LoadParameters(SelfInit, s, SignalFractionRounded(s.p_b))
        s2 == LoadCopula([s1 EXCEPT !.background_distribution = LoadBackground(s)], s)
    IN  IF s2.background_distribution = None
        THEN [self |-> s2, settings |-> s, outcome |-> "exit",
              log |-> <<"Settings Loaded!",
                        "Background distribution should be Gaussian or Gamma!">>]
        ELSE IF ~SignalIsDerived(s) /\ "signal_distribution" \notin DOMAIN s
        THEN [self |-> s2, settings |-> s, outcome |-> "KeyError",
              log |-> <<"Settings Loaded!", "Background Distributions Loaded!">>]
        ELSE
        LET sig == LoadSignal(s)
            s3 == [s2 EXCEPT !.signal_distribution = sig.dist]
            set1 == Put(s, "box_center", sig.box_center)
            siglog == IF sig.dist = None
                      THEN "Signal Distributions should be Gaussian only!"
                      ELSE "Signal Distributions Loaded!"
            log3 == <<"Settings Loaded!", "Background Distributions Loaded!", siglog>>
        IN  IF "systematics" \notin DOMAIN s
            THEN [self |-> s3, settings |-> set1, outcome |-> "KeyError",
                  log |-> Append(log3, "Systematics not found in settings")]
            ELSE [self |-> [LoadSystematics(s3, s.systematics, 1, sig.box_center)
                               EXCEPT !.systematics_loaded = TRUE],
                  settings |-> set1, outcome |-> "ok",
                  log |-> Append(log3, "Systematics Loaded!")]

\* __init__ of data_generator_mix.py: both distributions are Gaussian, the signal
\* always derived from the background; the settings are not written to.
InitMix(s) ==
    LET s1 == LoadParameters(SelfInit, s, SignalFractionExact(s.p_b))
        signal_mu == SignalMu(s.background_mu, s.L, s.theta)
        s2 == [s1 EXCEPT !.background_distribution =
                             [name |-> DISTRIBUTION_GAUSSIAN,
                              mu |-> s.background_mu,
                              sigma |-> s.background_sigma,
                              generator |-> s.generator,
                              angle_rotation |-> Get(s, "background_angle_rotation", None)],
                         !.signal_distribution =
                             [name |-> DISTRIBUTION_GAUSSIAN,
                              mu |-> signal_mu,
                              sigma |-> SigmaScaled(s.background_sigma, s.signal_sigma_scale),
                              generator |-> s.generator,
                              angle_rotation |-> Get(s, "signal_angle_rotation", None)]]
        log2 == <<"Settings Loaded!", "Background Distributions Loaded!",
                  "Signal Distributions Loaded!">>
    IN  IF "systematics" \notin DOMAIN s
        THEN [self |-> s2, settings |-> s, outcome |-> "KeyError",
              log |-> Append(log2, "Systematics not found in settings")]
        ELSE [self |-> [LoadSystematics(s2, s.systematics, 1, signal_mu)
                           EXCEPT !.systematics_loaded = TRUE],
              settings |-> s, outcome |-> "ok",
              log |-> Append(log2, "Systematics Loaded!")]

\* The keys of the settings read up to the background distribution.
HeadKeys(v, s) ==
    IF v = "all_systematics"
    THEN {"problem_dimension", "total_number_of_events", "p_b", "background_distribution"}
         \cup (IF "background_distribution" \in DOMAIN s
                  /\ s.background_distribution.name = DISTRIBUTION_GAUSSIAN
               THEN {"generator"}
               ELSE {})
    ELSE {"problem_dimension", "total_number_of_events", "p_b",
          "background_mu", "background_sigma", "generator"}

\* The keys read for the signal distribution, once the background is loaded.
SignalKeys(v, s) ==
    IF v = "all_systematics"
    THEN {"signal_from_background"}
         \cup (IF "signal_from_background" \in DOMAIN s /\ SignalIsDerived(s)
               THEN {"theta", "L", "signal_sigma_scale", "generator"}
               ELSE {"signal_distribution"}
                    \cup (IF "signal_distribution" \in DOMAIN s
                             /\ s.signal_distribution.name = DISTRIBUTION_GAUSSIAN
                          THEN {"generator"}
                          ELSE {}))
    ELSE {"theta", "L", "signal_sigma_scale", "generator"}

\* The keys of a descriptor read by the loop body.
DescriptorKeys(systematic) ==
    {"name"} \cup
    (CASE systematic.name = SYSTEMATIC_TRANSLATION -> {"z_magnitude", "alpha"}
       [] systematic.name = SYSTEMATIC_SCALING -> {"scaling_factor"}
       [] systematic.name = SYSTEMATIC_BOX -> {"box_l"}
       [] systematic.name = SYSTEMATIC_ROTATION -> {"rotation_degree"}
       [] OTHER -> {})

\* A descriptor of the list lacks a key the loop body reads.
DescriptorKeyMissing(s) ==
    \E i \in DOMAIN s.systematics :
        \/ "name" \notin DOMAIN s.systematics[i]
        \/ ~(DescriptorKeys(s.systematics[i]) \subseteq DOMAIN s.systematics[i])

\* The log up to the signal distribution.
SignalLog(v, s) ==
    <<"Settings Loaded!", "Background Distributions Loaded!",
      IF v = "all_systematics" /\ LoadSignal(s).dist = None
      THEN "Signal Distributions should be Gaussian only!"
      ELSE "Signal Distributions Loaded!">>

\* A subscript of the settings raises KeyError: no generator is constructed.
RaiseKeyError(s, log) == [self |-> SelfInit, settings |-> s, outcome |-> "KeyError", log |-> log]

\* DataGenerator(settings_dict) of either generator.
DataGeneratorInit(v, s) ==
    IF ~(HeadKeys(v, s) \subseteq DOMAIN s)
    THEN RaiseKeyError(s, <<"Settings Loaded!">>)
    ELSE IF v = "all_systematics" /\ LoadBackground(s) = None
    THEN InitAllSystematics(s)
    ELSE IF ~((SignalKeys(v, s) \ {"signal_distribution"}) \subseteq DOMAIN s)
    THEN RaiseKeyError(s, <<"Settings Loaded!", "Background Distributions Loaded!">>)
    ELSE IF /\ "systematics" \in DOMAIN s
            /\ SignalKeys(v, s) \subseteq DOMAIN s
            /\ DescriptorKeyMissing(s)
    THEN RaiseKeyError(IF v = "all_systematics"
                       THEN Put(s, "box_center", LoadSignal(s).box_center)
                       ELSE s,
                       SignalLog(v, s))
    ELSE IF v = "all_systematics" THEN InitAllSystematics(s) ELSE InitMix(s)

(***************************************************************************)
(* Distributions, systematics and the checker (distributions.py,           *)
(* systematics.py, checker.py).                                            *)
(***************************************************************************)
\* The points a distribution can produce: a Gamma only positive coordinates.
Points == {<<0, 0>>, <<2, 1>>}

SamplePoints(dist) ==
    IF dist.name = DISTRIBUTION_GAMMA
    THEN {p \in Points : p[1] > 0 /\ p[2] > 0}
    ELSE Points

\* generate_points(n, dimension): every n-row array the distribution can produce.
GeneratePoints(dist, n) == [1..n -> SamplePoints(dist)]

\* Translation.apply_systematics: adds the translation vector to every point.
TranslationApply(systematic, points) ==
    [i \in DOMAIN points |->
        <<points[i][1] + systematic.translation_vector[1],
          points[i][2] + systematic.translation_vector[2]>>]

\* Scaling.apply_systematics: multiplies every point by the scaling vector.
ScalingApply(systematic, points) ==
    [i \in DOMAIN points |->
        <<points[i][1] * systematic.scaling_vector[1],
          points[i][2] * systematic.scaling_vector[2]>>]

\* Rotation.apply_systematics: the 2D rotation matrix of rotation_degree.
RotationApply(systematic, points) ==
    LET c == CosDeg(systematic.rotation_degree)
        s == SinDeg(systematic.rotation_degree)
    IN  [i \in DOMAIN points |->
            <<points[i][1] * c - points[i][2] * s,
              points[i][1] * s + points[i][2] * c>>]

\* A row lies in the box: |coordinate - center| <= length / 2 on every axis.
InBox(systematic, row) ==
    \A a \in 1..2 :
        2 * Abs(row.x[a] - systematic.box_center[a]) <= systematic.box_length

\* The subsequence of seq at the positions where keep holds.
RECURSIVE Filter(_, _, _)
Filter(seq, keep, i) ==
    IF i > Len(seq)
    THEN <<>>
    ELSE (IF keep[i] THEN <<seq[i]>> ELSE <<>>) \o Filter(seq, keep, i + 1)

\* Box.apply_systematics(df_a, df_b): one row mask, applied to both frames.
BoxMask(systematic, df_a, df_b) ==
    [i \in DOMAIN df_a |-> InBox(systematic, df_a[i]) /\ InBox(systematic, df_b[i])]

BoxFilter(df_a, df_b, keep) == <<Filter(df_a, keep, 1), Filter(df_b, keep, 1)>>

BoxApply(systematic, df_a, df_b) ==
    BoxFilter(df_a, df_b, BoxMask(systematic, df_a, df_b))

\* Checker.distribution_is_not_loaded, Checker.data_is_not_generated
distribution_is_not_loaded(distribution) == distribution = None

data_is_not_generated(data) == data = None

(***************************************************************************)
(* sklearn.utils.shuffle(x, random_state=seed): the permutation is drawn   *)
(* from a generator seeded with `seed` over the positions 1..n, so it is a *)
(* function of the seed and the length alone.                              *)
(***************************************************************************)
RECURSIVE FisherYates(_, _, _)
FisherYates(perm, i, state) ==
    IF i < 2
    THEN perm
    ELSE LET st == (state * 75 + 73) % 65537
             j == (st % i) + 1
         IN  FisherYates([perm EXCEPT ![i] = perm[j], ![j] = perm[i]], i - 1, st)

ShufflePerm(seed, n) == FisherYates([k \in 1..n |-> k], n, seed)

shuffle(x, random_state) ==
    LET perm == ShufflePerm(random_state, Len(x))
    IN  [i \in 1..Len(x) |-> x[perm[i]]]

\* random_state of the four shuffle calls of generate_data.
ShuffleSeed == 33

(***************************************************************************)
(* DataGenerator.generate_data                                             *)
(***************************************************************************)
DataFrame(rows) == [name |-> "DataFrame", columns |-> <<"x1", "x2">>, rows |-> rows]

NdArray(values) == [name |-> "ndarray", values |-> values]

\* np.mean(points, axis=0), as the per-axis sums and the row count.
RECURSIVE SumAxis(_, _, _)
SumAxis(points, a, i) ==
    IF i > Len(points) THEN 0 ELSE points[i][a] + SumAxis(points, a, i + 1)

Mean(points) == [sum |-> <<SumAxis(points, 1, 1), SumAxis(points, 2, 1)>>,
                 n |-> Len(points)]

\* The samples of one call: fresh points for the original and for the biased set
\* in all_systematics; in mix one sample, which the biased set starts from.
Draws(v, obj) ==
    LET S == GeneratePoints(obj.signal_distribution, obj.number_of_signal_events)
        B == GeneratePoints(obj.background_distribution, obj.number_of_background_events)
    IN  IF v = "all_systematics"
        THEN [signal_data : S, background_data : B,
              biased_signal_data : S, biased_background_data : B]
        ELSE {[signal_data |-> sd, background_data |-> bd,
               biased_signal_data |-> sd, biased_background_data |-> bd] :
                 sd \in S, bd \in B}

\* The three point systematics, each applied to the biased signal and background
\* points when its operator is constructed: r is [signal, background, log].
RotationStep(obj, r) ==
    IF obj.systematic_rotation # None
    THEN [signal |-> RotationApply(obj.systematic_rotation, r.signal),
          background |-> RotationApply(obj.systematic_rotation, r.background),
          log |-> Append(r.log, "Rotation Systematics Applied!")]
    ELSE r

TranslationStep(obj, r) ==
    IF obj.systematic_translation # None
    THEN [signal |-> TranslationApply(obj.systematic_translation, r.signal),
          background |-> TranslationApply(obj.systematic_translation, r.background),
          log |-> Append(r.log, "Translation Systematics Applied!")]
    ELSE r

ScalingStep(obj, r) ==
    IF obj.systematic_scaling # None
    THEN [signal |-> ScalingApply(obj.systematic_scaling, r.signal),
          background |-> ScalingApply(obj.systematic_scaling, r.background),
          log |-> Append(r.log, "Scaling Systematics Applied!")]
    ELSE r

\* Mutant: Scaling applied before Translation.
ApplyPointSystematicsScalingFirst(obj, biased_signal_data, biased_background_data) ==
    TranslationStep(obj,
        ScalingStep(obj,
            RotationStep(obj,
                [signal |-> biased_signal_data,
                 background |-> biased_background_data,
                 log |-> <<>>])))

\* Rotation, then Translation, then Scaling: [signal, background, log].
ApplyPointSystematics(obj, biased_signal_data, biased_background_data) ==
    ScalingStep(obj,
        TranslationStep(obj,
            RotationStep(obj,
                [signal |-> biased_signal_data,
                 background |-> biased_background_data,
                 log |-> <<>>])))

\* Label columns stacked on the points, then signal and background concatenated.
Labelled(points, label) == [i \in DOMAIN points |-> [x |-> points[i], y |-> label]]

\* Mutant: the two labels exchanged.
ConcatFrameLabelsSwapped(signal_points, background_points) ==
    Labelled(signal_points, BACKGROUND_LABEL) \o Labelled(background_points, SIGNAL_LABEL)

ConcatFrame(signal_points, background_points) ==
    Labelled(signal_points, SIGNAL_LABEL) \o Labelled(background_points, BACKGROUND_LABEL)

\* The frames and the log message of a Box application.
Boxed(frames) ==
    [generated |-> frames[1], biased |-> frames[2], log |-> <<"Box Systematics Applied!">>]

\* Mutant: only the biased frame takes the result of the Box.
BoxedBiasedOnly(generated_dataframe, frames) ==
    [generated |-> generated_dataframe, biased |-> frames[2],
     log |-> <<"Box Systematics Applied!">>]

ApplyBoxSystematicsBiasedOnly(obj, generated_dataframe, biased_dataframe) ==
    IF obj.systematic_box # None
    THEN BoxedBiasedOnly(generated_dataframe,
             BoxApply(obj.systematic_box, generated_dataframe, biased_dataframe))
    ELSE [generated |-> generated_dataframe, biased |-> biased_dataframe, log |-> <<>>]

\* The Box systematic, on the two concatenated frames: [generated, biased, log].
ApplyBoxSystematics(obj, generated_dataframe, biased_dataframe) ==
    IF obj.systematic_box # None
    THEN Boxed(BoxApply(obj.systematic_box, generated_dataframe, biased_dataframe))
    ELSE [generated |-> generated_dataframe, biased |-> biased_dataframe, log |-> <<>>]

\* The data columns and the label column of a frame.
DataOf(frame) == [i \in DOMAIN frame |-> frame[i].x]

LabelsOf(frame) == [i \in DOMAIN frame |-> frame[i].y]

\* Mutant: the labels shuffled with another seed than the data.
ShuffleLabelsOtherSeed(labels) == shuffle(labels, ShuffleSeed + 1)

\* The four shuffle calls.
ShuffleData(data) == shuffle(data, ShuffleSeed)

ShuffleLabels(labels) == shuffle(labels, ShuffleSeed)

\* The centers generate_data records in the settings (all_systematics only).
\* Mutant: the centers of the original points taken after the systematics.
RecordCentersAfterBias(v, s, d, biased) ==
    IF v = "all_systematics"
    THEN Put(Put(Put(Put(s,
            "signal_center", Mean(biased.signal)),
            "background_center", Mean(biased.background)),
            "signal_center_biased", Mean(biased.signal)),
            "background_center_biased", Mean(biased.background))
    ELSE s

RecordCenters(v, s, d, biased) ==
    IF v = "all_systematics"
    THEN Put(Put(Put(Put(s,
            "signal_center", Mean(d.signal_data)),
            "background_center", Mean(d.background_data)),
            "signal_center_biased", Mean(biased.signal)),
            "background_center_biased", Mean(biased.background))
    ELSE s

\* Mutant: the data frames stored, the label arrays left as they were.
StoreDataOnly(obj, s, log, boxed) ==
    [self |-> [obj EXCEPT
                 !.generated_data = [name |-> "DataFrame", columns |-> <<"x1", "x2">>,
                                     rows |-> shuffle([i \in DOMAIN boxed.generated |->
                                                          boxed.generated[i].x], ShuffleSeed)],
                 !.biased_data = [name |-> "DataFrame", columns |-> <<"x1", "x2">>,
                                  rows |-> shuffle([i \in DOMAIN boxed.biased |->
                                                       boxed.biased[i].x], ShuffleSeed)]],
     settings |-> s,
     log |-> <<"Data Generated!">> \o log \o boxed.log,
     generated_dataframe |-> boxed.generated,
     biased_dataframe |-> boxed.biased]

\* The frames split into data and labels, shuffled and stored; `boxed` is
\* [generated, biased, log].
StoreData(obj, s, log, boxed) ==
    [self |-> [obj EXCEPT
                 !.generated_data = DataFrame(ShuffleData(DataOf(boxed.generated))),
                 !.generated_labels = NdArray(ShuffleLabels(LabelsOf(boxed.generated))),
                 !.biased_data = DataFrame(ShuffleData(DataOf(boxed.biased))),
                 !.biased_labels = NdArray(ShuffleLabels(LabelsOf(boxed.biased)))],
     settings |-> s,
     log |-> <<"Data Generated!">> \o log \o boxed.log,
     generated_dataframe |-> boxed.generated,
     biased_dataframe |-> boxed.biased]

\* From the biased points on: centers recorded, labels stacked, signal and
\* background concatenated, Box applied.
Assemble(v, obj, s, d, biased) ==
    StoreData(obj, RecordCenters(v, s, d, biased), biased.log,
              ApplyBoxSystematics(obj,
                  ConcatFrame(d.signal_data, d.background_data),
                  ConcatFrame(biased.signal, biased.background)))

\* A float of the settings.
PyFloat(x) == [name |-> "float", value |-> x]

\* The truth value Python gives a copula parameter: None and 0 are false.
Truthy(x) == x # None /\ x.value # 0

\* sp.stats.gamma.ppf(sp.stats.norm.cdf(points), alpha, beta): an increasing map
\* of every coordinate to a value above beta, the location of the Gamma
\* distribution.
CopulaRemap(points, alpha, beta) ==
    [i \in DOMAIN points |->
        [a \in DOMAIN points[i] |-> beta + alpha * (points[i][a] + 1)]]

\* Mutant: the remap applied to the original background points only.
ApplyCopulaOriginalOnly(v, obj, d) ==
    IF v = "all_systematics" /\ obj.apply_copula /\ Truthy(obj.alpha) /\ Truthy(obj.beta)
    THEN [d EXCEPT !.background_data = CopulaRemap(@, obj.alpha.value, obj.beta.value)]
    ELSE d

\* The copula on the background points of the original and of the biased set.
ApplyCopula(v, obj, d) ==
    IF v = "all_systematics" /\ obj.apply_copula /\ Truthy(obj.alpha) /\ Truthy(obj.beta)
    THEN [d EXCEPT !.background_data = CopulaRemap(@, obj.alpha.value, obj.beta.value),
                   !.biased_background_data = CopulaRemap(@, obj.alpha.value, obj.beta.value)]
    ELSE d

\* The warning of a copula switched on without valid parameters.
CopulaLog(v, obj) ==
    IF v = "all_systematics" /\ obj.apply_copula
       /\ ~(Truthy(obj.alpha) /\ Truthy(obj.beta))
    THEN <<"Parameters of Gamma Distribution (alpha, beta) are not valid">>
    ELSE <<>>

\* The copula warning put after the first message of the log.
WithCopulaLog(r, warning) == [r EXCEPT !.log = <<Head(@)>> \o warning \o Tail(@)]

\* From the remapped samples c on.
GenerateFrom(v, obj, s, c) ==
    Assemble(v, obj, s, c,
             ApplyPointSystematics(obj, c.biased_signal_data, c.biased_background_data))

\* generate_data past its checks, on the samples d:
\* [self, settings, log, generated_dataframe, biased_dataframe].
Generate(v, obj, s, d) ==
    WithCopulaLog(GenerateFrom(v, obj, s, ApplyCopula(v, obj, d)), CopulaLog(v, obj))

\* Mutant: the signal distribution is not checked.
GenerateCheckNoSignal(obj) ==
    IF distribution_is_not_loaded(obj.background_distribution)
    THEN "Background distribution is not loaded!"
    ELSE IF ~obj.systematics_loaded
    THEN "Systematics are not loaded!"
    ELSE ""

\* The check that makes generate_data exit before sampling, or "" when it passes.
GenerateCheck(obj) ==
    IF distribution_is_not_loaded(obj.signal_distribution)
    THEN "Signal distribution is not loaded!"
    ELSE IF distribution_is_not_loaded(obj.background_distribution)
    THEN "Background distribution is not loaded!"
    ELSE IF ~obj.systematics_loaded
    THEN "Systematics are not loaded!"
    ELSE ""

\* What a completed generate_data call leaves: r is the result of Generate.
Completed(v, d, r) ==
    r @@ [outcome |-> "ok",
          sampled |-> IF v = "all_systematics" THEN 4 ELSE 2,
          draws |-> d]

\* generate_data: [self, settings, outcome, log, sampled, ...]; `sampled` counts the
\* generate_points calls made.
generate_data(v, obj, s, d) ==
    IF GenerateCheck(obj) # ""
    THEN [self |-> obj, settings |-> s, outcome |-> "exit",
          log |-> <<GenerateCheck(obj)>>, sampled |-> 0]
    ELSE Completed(v, d, Generate(v, obj, s, d))

(***************************************************************************)
(* DataGenerator.get_data                                                  *)
(***************************************************************************)
\* Mutant: the data is handed out without the check.
get_data_unchecked(obj, s) ==
    [outcome |-> "ok", log |-> <<>>,
     settings |-> s,
     original_set |-> [data |-> obj.generated_data, labels |-> obj.generated_labels],
     biased_set |-> [data |-> obj.biased_data, labels |-> obj.biased_labels]]

get_data(obj, s) ==
    IF data_is_not_generated(obj.generated_data)
    THEN [outcome |-> "exit",
          log |-> <<"Data is not generated. First call generate_data function!">>]
    ELSE [outcome |-> "ok", log |-> <<>>,
          settings |-> s,
          original_set |-> [data |-> obj.generated_data, labels |-> obj.generated_labels],
          biased_set |-> [data |-> obj.biased_data, labels |-> obj.biased_labels]]

(***************************************************************************)
(* DataGenerator.save_data                                                 *)
(***************************************************************************)
\* Python values a caller passes as file_index.
PyInt(i) == [name |-> "int", value |-> i]

\* str(file_index)
Str(x) == ToString(x.value)

\* A path is the sequence of its components; os.path.join appends.
Join(path, component) == Append(path, component)

\* os.makedirs(path): the directory and its missing parents.
MakeDirs(dirs, path) == dirs \cup {SubSeq(path, 1, k) : k \in 1..Len(path)}

\* Mutant: the file index left out of the name.
FileNameNoIndex(stem, file_index, ext) == stem \o ext

\* The names of the five files.
FileName(stem, file_index, ext) ==
    IF file_index = None
    THEN stem \o ext
    ELSE stem \o "_" \o Str(file_index) \o ext

\* The lines of a labels file: str(int(lbl)) per label.
LabelLines(labels) == [i \in DOMAIN labels.values |-> ToString(labels.values[i])]

\* to_csv(file, index=False): the header and the rows.
Csv(data) == [header |-> data.columns, rows |-> data.rows]

\* save_data: [outcome, log, fs].
save_data(obj, s, files, directory, file_index) ==
    IF data_is_not_generated(obj.generated_data)
    THEN [outcome |-> "exit",
          log |-> <<"Data is not generated. First call generate_data function!">>,
          fs |-> files]
    ELSE
    LET train_data_dir == Join(Join(directory, "train"), "data")
        train_labels_dir == Join(Join(directory, "train"), "labels")
        test_data_dir == Join(Join(directory, "test"), "data")
        test_labels_dir == Join(Join(directory, "test"), "labels")
        settings_dir == Join(directory, "settings")
        dirs == MakeDirs(MakeDirs(MakeDirs(MakeDirs(MakeDirs(
                    files.dirs \cup {directory},
                    train_data_dir), train_labels_dir), test_data_dir),
                    test_labels_dir), settings_dir)
        train_data_file == Join(train_data_dir, FileName("train", file_index, ".csv"))
        train_labels_file == Join(train_labels_dir, FileName("train", file_index, ".labels"))
        test_data_file == Join(test_data_dir, FileName("test", file_index, ".csv"))
        test_labels_file == Join(test_labels_dir, FileName("test", file_index, ".labels"))
        settings_file == Join(settings_dir, FileName("settings", file_index, ".json"))
        written == (train_data_file :> Csv(obj.generated_data))
                   @@ (test_data_file :> Csv(obj.biased_data))
                   @@ (train_labels_file :> LabelLines(obj.generated_labels))
                   @@ (test_labels_file :> LabelLines(obj.biased_labels))
                   @@ (settings_file :> s)
    IN  [outcome |-> "ok",
         log |-> (IF directory \in files.dirs
                  THEN <<>>
                  ELSE <<"Directory does not exist. Creating directory!">>)
                 \o <<"Train and Test data saved!">>,
         fs |-> [dirs |-> dirs, files |-> written @@ files.files]]

(***************************************************************************)
(* The settings explored.                                                  *)
(***************************************************************************)
\* Descriptors of the systematics list: each kind enabled and disabled.
Descriptors ==
    { [name |-> SYSTEMATIC_TRANSLATION, z_magnitude |-> 1, alpha |-> 90],
      [name |-> SYSTEMATIC_TRANSLATION, z_magnitude |-> 0, alpha |-> 0],
      [name |-> SYSTEMATIC_SCALING, scaling_factor |-> 2],
      [name |-> SYSTEMATIC_SCALING, scaling_factor |-> 1],
      [name |-> SYSTEMATIC_BOX, box_l |-> 2],
      [name |-> SYSTEMATIC_BOX, box_l |-> 1],
      [name |-> SYSTEMATIC_ROTATION, rotation_degree |-> 90],
      [name |-> SYSTEMATIC_ROTATION, rotation_degree |-> 0] }

EnabledDescriptors ==
    { [name |-> SYSTEMATIC_TRANSLATION, z_magnitude |-> 1, alpha |-> 90],
      [name |-> SYSTEMATIC_SCALING, scaling_factor |-> 2],
      [name |-> SYSTEMATIC_BOX, box_l |-> 4],
      [name |-> SYSTEMATIC_ROTATION, rotation_degree |-> 90] }

\* Every list of at most MaxSyst descriptors.
ShortLists == UNION {[1..n -> Descriptors] : n \in 0..MaxSyst}

\* Every order of the four enabled descriptors.
OrderedLists ==
    {l \in [1..4 -> EnabledDescriptors] : \A i, j \in 1..4 : i # j => l[i] # l[j]}

SystematicsLists == ShortLists \cup OrderedLists

GaussianBackground == [name |-> DISTRIBUTION_GAUSSIAN, mu |-> <<0, 0>>, sigma |-> <<10, 10>>]

GammaBackground == [name |-> DISTRIBUTION_GAMMA, k |-> 2, _theta_ |-> 2]

PoissonBackground == [name |-> DISTRIBUTION_POISSON]

GaussianSignal == [name |-> DISTRIBUTION_GAUSSIAN, mu |-> <<2, 1>>, sigma |-> <<3, 3>>]

GammaSignal == [name |-> DISTRIBUTION_GAMMA, k |-> 2, _theta_ |-> 2]

\* Settings of all_systematics with the signal derived from a Gaussian background.
DerivedSettings(n, pb, systematics) ==
    [ problem_dimension |-> 2,
      total_number_of_events |-> n,
      p_b |-> pb,
      theta |-> 0,
      L |-> 2,
      generator |-> "normal",
      background_distribution |-> GaussianBackground,
      signal_from_background |-> TRUE,
      signal_sigma_scale |-> 3,
      systematics |-> systematics ]

\* Settings of all_systematics with the distributions named explicitly.
NamedSettings(n, pb, systematics, background, from_background, signal) ==
    LET s == [DerivedSettings(n, pb, systematics) EXCEPT
                !.background_distribution = background,
                !.signal_from_background = from_background]
    IN  IF signal = None THEN s ELSE Put(s, "signal_distribution", signal)

\* Settings of mix.
MixSettings(n, pb, systematics) ==
    [ problem_dimension |-> 2,
      total_number_of_events |-> n,
      p_b |-> pb,
      theta |-> 0,
      L |-> 2,
      generator |-> "normal",
      background_mu |-> <<0, 0>>,
      background_sigma |-> <<10, 10>>,
      signal_sigma_scale |-> 3,
      systematics |-> systematics ]

\* (total_number_of_events, p_b) pairs giving 1+1, 0+0, 2+0 and 2+1 events.
EventSettings == {<<2, 500000>>, <<0, 500000>>, <<3, 333333>>, <<4, 300000>>}

FewLists ==
    { <<>>,
      <<[name |-> SYSTEMATIC_TRANSLATION, z_magnitude |-> 1, alpha |-> 90]>>,
      <<[name |-> SYSTEMATIC_BOX, box_l |-> 2]>>,
      <<[name |-> SYSTEMATIC_BOX, box_l |-> 4],
        [name |-> SYSTEMATIC_SCALING, scaling_factor |-> 2]>> }

DistributionSettings ==
    { NamedSettings(2, 500000, l, b, f, sg) :
        l \in FewLists,
        b \in {GaussianBackground, GammaBackground, PoissonBackground},
        f \in BOOLEAN,
        sg \in {None, GaussianSignal, GammaSignal} }

\* The generators explored for the systematics: <<variant, settings>>.
SystematicsConfigs ==
    ({"all_systematics"} \X
        ({DerivedSettings(2, 500000, l) : l \in SystematicsLists}
         \cup {DerivedSettings(e[1], e[2], l) : e \in EventSettings, l \in FewLists}
         \cup DistributionSettings))
    \cup
    ({"mix"} \X
        ({MixSettings(2, 500000, l) : l \in SystematicsLists}
         \cup {MixSettings(e[1], e[2], l) : e \in EventSettings, l \in FewLists}))

\* Settings of all_systematics with the copula keys: apply_copula is the
\* sequence of its value when the key is given, alpha and beta are None when
\* theirs is not.
CopulaSettings(systematics, apply_copula, alpha, beta) ==
    [k \in DOMAIN DerivedSettings(2, 500000, systematics)
            \cup (IF apply_copula = <<>> THEN {} ELSE {"apply_copula"})
            \cup (IF alpha = None THEN {} ELSE {"alpha"})
            \cup (IF beta = None THEN {} ELSE {"beta"}) |->
        CASE k = "apply_copula" -> apply_copula[1]
          [] k = "alpha" -> alpha
          [] k = "beta" -> beta
          [] OTHER -> DerivedSettings(2, 500000, systematics)[k]]

CopulaConfigs ==
    {"all_systematics"} \X
        {CopulaSettings(l, c, a, b) :
            l \in FewLists, c \in {<<>>, <<TRUE>>, <<FALSE>>},
            a \in {None, PyFloat(0), PyFloat(2)},
            b \in {None, PyFloat(0), PyFloat(3)}}

\* Mutant: the distributions given by the flat keys background_mu and
\* background_sigma.
get_setting_flat(case, N, p_b, z) ==
    [ case |-> case,
      problem_dimension |-> 2,
      total_number_of_events |-> N,
      p_b |-> p_b,
      theta |-> 0,
      L |-> 2,
      generator |-> "normal",
      background_mu |-> <<0, 0>>,
      background_sigma |-> <<10, 10>>,
      signal_sigma_scale |-> 3,
      systematics |-> <<[name |-> "Translation", z_magnitude |-> z, alpha |-> 90]>>,
      train_comment |-> "",
      test_comment |-> "" ]

\* Setting(case, params).get_setting() of the starting kit, for the N, p_b and z
\* of params; sigma and signal_sigma_scale are counts of tenths.
get_setting(case, N, p_b, z) ==
    [ case |-> case,
      problem_dimension |-> 2,
      total_number_of_events |-> N,
      p_b |-> p_b,
      theta |-> 0,
      L |-> 2,
      generator |-> "normal",
      background_distribution |->
          [name |-> "Gaussian", mu |-> <<0, 0>>, sigma |-> <<10, 10>>],
      signal_from_background |-> TRUE,
      signal_sigma_scale |-> 3,
      systematics |-> <<[name |-> "Translation", z_magnitude |-> z, alpha |-> 90]>>,
      train_comment |-> "",
      test_comment |-> "" ]

\* The starting-kit settings explored.
StartingKitConfigs ==
    {"all_systematics"} \X
        {get_setting(case, N, p_b, z) :
            case \in {1, 2}, N \in {0, 1, 2, 1000},
            p_b \in {300000, 500000, 700000}, z \in {0, 1, 2}}

\* Descriptors of one kind: two that satisfy the enablement rule of the kind
\* (any Translation does) and one that does not.
DescriptorsOfKind(name) ==
    CASE name = SYSTEMATIC_TRANSLATION ->
           { [name |-> SYSTEMATIC_TRANSLATION, z_magnitude |-> 1, alpha |-> 90],
             [name |-> SYSTEMATIC_TRANSLATION, z_magnitude |-> 2, alpha |-> 0],
             [name |-> SYSTEMATIC_TRANSLATION, z_magnitude |-> 0, alpha |-> 0] }
      [] name = SYSTEMATIC_SCALING ->
           { [name |-> SYSTEMATIC_SCALING, scaling_factor |-> 2],
             [name |-> SYSTEMATIC_SCALING, scaling_factor |-> 3],
             [name |-> SYSTEMATIC_SCALING, scaling_factor |-> 1] }
      [] name = SYSTEMATIC_BOX ->
           { [name |-> SYSTEMATIC_BOX, box_l |-> 2],
             [name |-> SYSTEMATIC_BOX, box_l |-> 4],
             [name |-> SYSTEMATIC_BOX, box_l |-> 1] }
      [] name = SYSTEMATIC_ROTATION ->
           { [name |-> SYSTEMATIC_ROTATION, rotation_degree |-> 90],
             [name |-> SYSTEMATIC_ROTATION, rotation_degree |-> 180],
             [name |-> SYSTEMATIC_ROTATION, rotation_degree |-> 0] }

SystematicKinds ==
    {SYSTEMATIC_TRANSLATION, SYSTEMATIC_SCALING, SYSTEMATIC_BOX, SYSTEMATIC_ROTATION}

\* Lists of MaxRepeat or fewer descriptors, all of one kind.
MaxRepeat == 3

RepeatedLists ==
    UNION {[1..n -> DescriptorsOfKind(name)] : n \in 2..MaxRepeat, name \in SystematicKinds}

\* The generators explored for repeated descriptors.
RepeatedConfigs ==
    ({"all_systematics"} \X {DerivedSettings(2, 500000, l) : l \in RepeatedLists})
    \cup
    ({"mix"} \X {MixSettings(2, 500000, l) : l \in RepeatedLists})

\* The starting-kit settings handed to either generator.
AdapterConfigs ==
    {"all_systematics", "mix"} \X
        {get_setting(case, N, p_b, z) :
            case \in {1, 2}, N \in {0, 1, 2, 1000},
            p_b \in {300000, 500000, 700000}, z \in {0, 1, 2}}

\* The generators explored through their whole life.
LifecycleConfigs ==
    ({"all_systematics"} \X
        ({DerivedSettings(2, 300000, l) : l \in FewLists}
         \cup {DerivedSettings(0, 500000, <<>>),
               NamedSettings(2, 300000, <<>>, GaussianBackground, FALSE, GammaSignal),
               NamedSettings(2, 300000, <<>>, GammaBackground, TRUE, GaussianSignal),
               NamedSettings(2, 300000, <<>>, PoissonBackground, TRUE, None)}))
    \cup
    ({"mix"} \X {MixSettings(2, 500000, l) : l \in FewLists})

\* The directories and file indexes save_data is called with.
Directories == {<<"D">>}

FileIndexes == {None, PyInt(1), PyInt(11)}

(***************************************************************************)
(* The state machine.                                                      *)
(***************************************************************************)
InitOn(configs) ==
    /\ \E c \in configs : variant = c[1] /\ settings = c[2]
    /\ self = SelfInit
    /\ phase = "unconfigured"
    /\ last = [op |-> "none", outcome |-> "ok", log |-> <<>>]
    /\ fs = [dirs |-> {}, files |-> <<>>]
    /\ hep = [pc |-> "not_run"]

\* DataGenerator(settings_dict)
Construct ==
    /\ phase = "unconfigured"
    /\ \E r \in {DataGeneratorInit(variant, settings)} :
           /\ self' = r.self
           /\ settings' = r.settings
           /\ phase' = IF r.outcome = "ok" THEN "configured" ELSE "aborted"
           /\ last' = [op |-> "construct", outcome |-> r.outcome, log |-> r.log]
    /\ UNCHANGED <<variant, fs, hep>>

\* generate_data() stopped by one of its checks.
GenerateDataExit ==
    /\ phase = "configured"
    /\ GenerateCheck(self) # ""
    /\ \E r \in {generate_data(variant, self, settings, None)} :
           /\ self' = r.self
           /\ settings' = r.settings
           /\ phase' = "aborted"
           /\ last' = [op |-> "generate_data", outcome |-> r.outcome, log |-> r.log,
                       sampled |-> r.sampled]
    /\ UNCHANGED <<variant, fs, hep>>

\* generate_data() on freshly sampled points.
GenerateDataOk ==
    /\ phase = "configured"
    /\ GenerateCheck(self) = ""
    /\ self.number_of_signal_events + self.number_of_background_events <= MaxRows
    /\ \E d \in Draws(variant, self) :
         \E r \in {generate_data(variant, self, settings, d)} :
             /\ self' = r.self
             /\ settings' = r.settings
             /\ phase' = "configured"
             /\ last' = [op |-> "generate_data", outcome |-> r.outcome, log |-> r.log,
                         sampled |-> r.sampled, draws |-> r.draws,
                         generated_dataframe |-> r.generated_dataframe,
                         biased_dataframe |-> r.biased_dataframe]
    /\ UNCHANGED <<variant, fs, hep>>

\* get_data()
GetData ==
    /\ phase = "configured"
    /\ \E r \in {get_data(self, settings)} :
           /\ phase' = IF r.outcome = "ok" THEN "configured" ELSE "aborted"
           /\ last' = r @@ [op |-> "get_data"]
    /\ UNCHANGED <<variant, settings, self, fs, hep>>

\* save_data(directory, file_index)
SaveData ==
    /\ phase = "configured"
    /\ \E directory \in Directories, file_index \in FileIndexes :
         \E r \in {save_data(self, settings, fs, directory, file_index)} :
             /\ phase' = IF r.outcome = "ok" THEN "configured" ELSE "aborted"
             /\ fs' = r.fs
             /\ last' = [op |-> "save_data", outcome |-> r.outcome, log |-> r.log,
                         directory |-> directory, file_index |-> file_index]
    /\ UNCHANGED <<variant, settings, self, hep>>

Init == InitOn(LifecycleConfigs)

Next == Construct \/ GenerateDataExit \/ GenerateDataOk \/ GetData \/ SaveData

Spec == Init /\ [][Next]_vars

\* The generators explored for what construction and generation compute.
InitSystematics == InitOn(SystematicsConfigs)

NextSystematics == Construct \/ GenerateDataExit \/ GenerateDataOk

SpecSystematics == InitSystematics /\ [][NextSystematics]_vars

\* The generators explored for the copula.
InitCopula == InitOn(CopulaConfigs)

NextCopula == Construct \/ GenerateDataOk

SpecCopula == InitCopula /\ [][NextCopula]_vars

\* The generators built from the starting-kit settings.
InitStartingKit == InitOn(StartingKitConfigs)

NextStartingKit == Construct \/ GenerateDataOk

SpecStartingKit == InitStartingKit /\ [][NextStartingKit]_vars

\* The generators built from lists that repeat a kind of descriptor.
InitRepeated == InitOn(RepeatedConfigs)

NextRepeated == Construct \/ GenerateDataOk

SpecRepeated == InitRepeated /\ [][NextRepeated]_vars

\* Either generator built from the starting-kit settings.
InitAdapter == InitOn(AdapterConfigs)

NextAdapter == Construct \/ GenerateDataOk

SpecAdapter == InitAdapter /\ [][NextAdapter]_vars

\* The event totals and background fractions (in millionths) explored for the
\* event counts.
CountTotals == {0, 1, 2, 3, 10, 103, 1000}

CountFractions == {1, 100000, 300000, 333333, 398056, 499996, 500000, 999999}

CountConfigs ==
    ({"all_systematics"} \X
        {DerivedSettings(n, pb, <<>>) : n \in CountTotals, pb \in CountFractions})
    \cup
    ({"mix"} \X
        {MixSettings(n, pb, <<>>) : n \in CountTotals, pb \in CountFractions})

InitCounts == InitOn(CountConfigs)

NextCounts == Construct

SpecCounts == InitCounts /\ [][NextCounts]_vars

(***************************************************************************)
(* Competition_Bundle_HEP/datagen_temp.py                                  *)
(*                                                                         *)
(* A pandas Series or DataFrame is the sequence of its values in row       *)
(* order.  A weight is a fraction <<numerator, denominator>> in lowest     *)
(* terms; <<1, 0>> is the float inf.                                       *)
(***************************************************************************)
RECURSIVE GCD(_, _)
GCD(a, b) == IF b = 0 THEN a ELSE GCD(b, a % b)

Frac(n, d) == <<n \div GCD(n, d), d \div GCD(n, d)>>

FracAdd(x, y) == Frac(x[1] * y[2] + y[1] * x[2], x[2] * y[2])

FracTimes(x, y) == Frac(x[1] * y[1], x[2] * y[2])

FracOver(x, y) == Frac(x[1] * y[2], x[2] * y[1])

\* np.sum(weights[label == c]), over the rows lo..hi by halves.
RECURSIVE SumWhere(_, _, _, _, _)
SumWhere(weights, label, c, lo, hi) ==
    IF lo > hi
    THEN <<0, 1>>
    ELSE IF lo = hi
    THEN (IF label[lo] = c THEN weights[lo] ELSE <<0, 1>>)
    ELSE FracAdd(SumWhere(weights, label, c, lo, (lo + hi) \div 2),
                 SumWhere(weights, label, c, ((lo + hi) \div 2) + 1, hi))

np_sum(weights, label, c) == SumWhere(weights, label, c, 1, Len(weights))

\* weights[label == c] *= factor
TimesWhere(weights, label, c, factor) ==
    [i \in DOMAIN weights |->
        IF label[i] = c THEN FracTimes(weights[i], factor) ELSE weights[i]]

\* The test fold rescaled with the two totals exchanged.
AdjustFoldSwapped(test_weights, test_label, S, B, s, b) ==
    TimesWhere(TimesWhere(test_weights, test_label, 1, FracOver(B, s)),
               test_label, 0, FracOver(S, b))

\* train_weights[train_label==1] *= total_signal_weight / subset_signal_weight
\* train_weights[train_label==0] *= total_background_weight / subset_background_weight
AdjustTrain(train_weights, train_label, S, B, s, b) ==
    TimesWhere(TimesWhere(train_weights, train_label, 1, FracOver(S, s)),
               train_label, 0, FracOver(B, b))

\* mu_calc_weights[mu_calc_label==1] *= total_signal_weight / signal_mu_calc
\* mu_calc_weights[mu_calc_label==0] *= total_background_weight / background_mu_calc
AdjustMuCalc(mu_calc_weights, mu_calc_label, S, B, s, b) ==
    TimesWhere(TimesWhere(mu_calc_weights, mu_calc_label, 1, FracOver(S, s)),
               mu_calc_label, 0, FracOver(B, b))

\* test_weights[test_label==1] *= total_signal_weight / subset_signal_weight
\* test_weights[test_label==0] *= total_background_weight / subset_background_weight
AdjustFold(test_weights, test_label, S, B, s, b) ==
    TimesWhere(TimesWhere(test_weights, test_label, 1, FracOver(S, s)),
               test_label, 0, FracOver(B, b))

\* Mutant: mu multiplies every weight of the fold.
ApplyMuToAll(test_weights, test_label, mu) ==
    [i \in DOMAIN test_weights |-> FracTimes(test_weights[i], mu)]

\* test_weights[test_label==1] *= mu
ApplyMu(test_weights, test_label, mu) == TimesWhere(test_weights, test_label, 1, mu)

\* train_test_split(..., test_size=0.3): the first ceil(0.3 n) rows of a random
\* order are the test set, the rest the train set.
TestSize(n) == (3 * n + 9) \div 10

TrainPart(x, order) ==
    [i \in 1..(Len(x) - TestSize(Len(x))) |-> x[order[TestSize(Len(x)) + i]]]

TestPart(x, order) == [i \in 1..TestSize(Len(x)) |-> x[order[i]]]

\* [x[i:i+len(x)//10] for i in range(0, len(x), len(x)//10)]
Parts == 10

FoldCount(n) == (n + (n \div Parts) - 1) \div (n \div Parts)

FoldEnd(n, j) == IF j * (n \div Parts) < n THEN j * (n \div Parts) ELSE n

FoldsWithoutRemainder(x) ==
    [j \in 1..Parts |->
        SubSeq(x, (j - 1) * (Len(x) \div Parts) + 1, j * (Len(x) \div Parts))]

Folds(x) ==
    [j \in 1..FoldCount(Len(x)) |->
        SubSeq(x, (j - 1) * (Len(x) \div Parts) + 1, FoldEnd(Len(x), j))]

\* Systematics(data=test_syst, tes=tes).data
SystematicsData(data, tes) == [data |-> data, tes |-> tes]

\* DataFrame.to_csv(path, index=False)
FeaturesCsv(df) == [header |-> <<"features">>, rows |-> df]

ReferenceFile == <<"reference_data.csv">>

SettingsFile(i) == <<"reference_data", "settings", "data_" \o ToString(i) \o ".json">>

InputData(split, kind) == <<"input_data", split, kind>>

\* pd.read_csv, the columns popped, the two totals (lines 21-49).
LoadReference ==
    /\ hep.pc = "start"
    /\ \E rows \in {fs.files[ReferenceFile]} :
         \E label \in {[i \in DOMAIN rows |-> rows[i].Label]} :
           \E weights \in {[i \in DOMAIN rows |-> rows[i].Weight]} :
             hep' = [pc |-> "loaded",
                     df |-> [i \in DOMAIN rows |-> rows[i].features],
                     label |-> label,
                     weights |-> weights,
                     total_signal_weight |-> np_sum(weights, label, 1),
                     total_background_weight |-> np_sum(weights, label, 0)]
    /\ UNCHANGED <<variant, settings, self, phase, last, fs>>

\* The orders train_test_split may draw for n rows.
SplitOrders(n) ==
    { [i \in 1..n |-> ((i - 1 + c) % n) + 1] : c \in {0, 3} }
    \cup { [i \in 1..n |-> n + 1 - i] }

\* train_test_split and the output directories (lines 52-83).
Split ==
    /\ hep.pc = "loaded"
    /\ \E order \in SplitOrders(Len(hep.df)) :
         hep' = [pc |-> "split",
                 train_df |-> TrainPart(hep.df, order),
                 test_df |-> TestPart(hep.df, order),
                 train_label |-> TrainPart(hep.label, order),
                 test_label |-> TestPart(hep.label, order),
                 train_weights |-> TrainPart(hep.weights, order),
                 test_weights |-> TestPart(hep.weights, order)] @@ hep
    /\ fs' = [fs EXCEPT !.dirs =
                MakeDirs(MakeDirs(MakeDirs(MakeDirs(MakeDirs(MakeDirs(MakeDirs(@,
                    InputData("train", "labels")), InputData("train", "weights")),
                    InputData("train", "data")), InputData("train", "settings")),
                    InputData("test", "labels")), InputData("test", "weights")),
                    InputData("test", "data"))]
    /\ UNCHANGED <<variant, settings, self, phase, last>>

\* The train weights rescaled; train settings, labels and weights written
\* (lines 88-116).
RescaleTrain ==
    /\ hep.pc = "split"
    /\ \E s \in {np_sum(hep.train_weights, hep.train_label, 1)} :
         \E b \in {np_sum(hep.train_weights, hep.train_label, 0)} :
           \E w \in {AdjustTrain(hep.train_weights, hep.train_label,
                                 hep.total_signal_weight,
                                 hep.total_background_weight, s, b)} :
             /\ hep' = [pc |-> "train_saved",
                        subset_signal_weight |-> s,
                        subset_background_weight |-> b,
                        train_weights |-> w] @@ hep
             /\ fs' = [fs EXCEPT !.files =
                         (Join(InputData("train", "settings"), "data.json")
                              :> [tes |-> <<1, 1>>, ground_truth_mu |-> <<1, 1>>])
                         @@ (Join(InputData("train", "labels"), "data.labels")
                              :> hep.train_label)
                         @@ (Join(InputData("train", "weights"), "data.weights") :> w)
                         @@ @]
    /\ UNCHANGED <<variant, settings, self, phase, last>>

\* The test set cut into folds (lines 119-121).
CutFolds ==
    /\ hep.pc = "train_saved"
    /\ Len(hep.test_df) \div Parts # 0
    /\ hep' = [pc |-> "cut",
               test_dfs |-> Folds(hep.test_df),
               test_weights_ |-> Folds(hep.test_weights),
               test_label_ |-> Folds(hep.test_label)] @@ hep
    /\ UNCHANGED <<variant, settings, self, phase, last, fs>>

\* range() with a step of zero: fewer than ten test rows.
CutFoldsError ==
    /\ hep.pc = "train_saved"
    /\ Len(hep.test_df) \div Parts = 0
    /\ hep' = [pc |-> "ValueError"] @@ hep
    /\ UNCHANGED <<variant, settings, self, phase, last, fs>>

\* The first fold taken out, rescaled and written (lines 123-138).
MuCalc ==
    /\ hep.pc = "cut"
    /\ \E mu_calc_label \in {Head(hep.test_label_)} :
         \E s \in {np_sum(Head(hep.test_weights_), mu_calc_label, 1)} :
           \E b \in {np_sum(Head(hep.test_weights_), mu_calc_label, 0)} :
             \E w \in {AdjustMuCalc(Head(hep.test_weights_), mu_calc_label,
                                    hep.total_signal_weight,
                                    hep.total_background_weight, s, b)} :
               /\ hep' = [pc |-> "folds",
                          i |-> 0,
                          test_dfs |-> Tail(hep.test_dfs),
                          test_weights_ |-> Tail(hep.test_weights_),
                          test_label_ |-> Tail(hep.test_label_),
                          mu_calc_set |-> Head(hep.test_dfs),
                          mu_calc_weights |-> w,
                          mu_calc_label |-> mu_calc_label,
                          signal_mu_calc |-> s,
                          background_mu_calc |-> b] @@ hep
               /\ fs' = [fs EXCEPT !.files =
                           (Join(InputData("test", "weights"), "data_mu_calc.weights") :> w)
                           @@ (Join(InputData("test", "labels"), "data_mu_calc.labels")
                                :> mu_calc_label)
                           @@ (Join(InputData("test", "data"), "data_mu_calc.csv")
                                :> FeaturesCsv(Head(hep.test_dfs)))
                           @@ @]
    /\ UNCHANGED <<variant, settings, self, phase, last>>

\* One round of the loop over the remaining folds when its settings file is
\* missing: open() raises (lines 155-156).
TestFoldNoSettings ==
    /\ hep.pc = "folds"
    /\ hep.i < Len(hep.test_dfs)
    /\ SettingsFile(hep.i) \notin DOMAIN fs.files
    /\ hep' = [pc |-> "FileNotFoundError"] @@ hep
    /\ UNCHANGED <<variant, settings, self, phase, last, fs>>

\* One round of the loop over the remaining folds (lines 142-199).
TestFold ==
    /\ hep.pc = "folds"
    /\ hep.i < Len(hep.test_dfs)
    /\ SettingsFile(hep.i) \in DOMAIN fs.files
    /\ \E test_label \in {hep.test_label_[hep.i + 1]} :
         \E s \in {np_sum(hep.test_weights_[hep.i + 1], test_label, 1)} :
           \E b \in {np_sum(hep.test_weights_[hep.i + 1], test_label, 0)} :
             \E w \in {AdjustFold(hep.test_weights_[hep.i + 1], test_label,
                                  hep.total_signal_weight,
                                  hep.total_background_weight, s, b)} :
               \E mu \in {fs.files[SettingsFile(hep.i)].ground_truth_mu} :
                 \E out \in {ApplyMu(w, test_label, mu)} :
                   /\ hep' = [pc |-> "folds",
                              i |-> hep.i + 1,
                              test_df |-> SystematicsData(hep.test_dfs[hep.i + 1], <<1, 1>>),
                              test_weights |-> out,
                              test_label |-> test_label,
                              subset_signal_weight |-> s,
                              subset_background_weight |-> b,
                              mu |-> mu,
                              signal |-> np_sum(w, test_label, 1),
                              background |-> np_sum(w, test_label, 0)] @@ hep
                   /\ fs' = [fs EXCEPT !.files =
                               (Join(InputData("test", "data"),
                                     "data_" \o ToString(hep.i) \o ".csv")
                                  :> FeaturesCsv(SystematicsData(hep.test_dfs[hep.i + 1],
                                                                 <<1, 1>>)))
                               @@ (Join(InputData("test", "weights"),
                                        "data_" \o ToString(hep.i) \o ".weights") :> out)
                               @@ (Join(InputData("test", "labels"),
                                        "data_" \o ToString(hep.i) \o ".labels")
                                     :> test_label)
                               @@ @]
    /\ UNCHANGED <<variant, settings, self, phase, last>>

\* The train data written after the last fold (lines 202-205).
SaveTrain ==
    /\ hep.pc = "folds"
    /\ hep.i = Len(hep.test_dfs)
    /\ hep' = [pc |-> "done"] @@ hep
    /\ fs' = [fs EXCEPT !.files =
                (Join(InputData("train", "data"), "data.csv") :> FeaturesCsv(hep.train_df))
                @@ @]
    /\ UNCHANGED <<variant, settings, self, phase, last>>

\* The reference datasets explored: n rows, every labelEvery-th row a signal
\* row, weights cycling through 1..weightCycle.
ReferenceRows(n, labelEvery, weightCycle) ==
    [i \in 1..n |-> [features |-> i,
                     Label |-> IF i % labelEvery = 0 THEN 1 ELSE 0,
                     Weight |-> <<1 + (i % weightCycle), 1>>]]

ReferenceSizes == {20, 40, 67, 100}

ReferenceSets ==
    {ReferenceRows(n, labelEvery, weightCycle) :
        n \in ReferenceSizes, labelEvery \in {2, 3, 7}, weightCycle \in {1, 3}}

\* The settings files data_0.json .. data_9.json explored.
SettingsIndexes == 0..9

GroundTruthMus ==
    {[i \in SettingsIndexes |-> <<1, 1>>], [i \in SettingsIndexes |-> <<i + 1, 2>>]}

ReferenceFiles(rows, mus) ==
    [path \in {ReferenceFile} \cup {SettingsFile(i) : i \in SettingsIndexes} |->
        IF path = ReferenceFile
        THEN rows
        ELSE [tes |-> <<1, 1>>,
              ground_truth_mu |->
                  mus[CHOOSE i \in SettingsIndexes : SettingsFile(i) = path]]]

InitHEP ==
    /\ variant = "datagen_temp"
    /\ settings = None
    /\ self = None
    /\ phase = "script"
    /\ last = [op |-> "none", outcome |-> "ok", log |-> <<>>]
    /\ \E rows \in ReferenceSets, mus \in GroundTruthMus :
         fs = [dirs |-> {<<"reference_data">>, <<"reference_data", "settings">>},
               files |-> ReferenceFiles(rows, mus)]
    /\ hep = [pc |-> "start"]

NextHEP ==
    \/ LoadReference
    \/ Split
    \/ RescaleTrain
    \/ CutFolds
    \/ CutFoldsError
    \/ MuCalc
    \/ TestFold
    \/ TestFoldNoSettings
    \/ SaveTrain

SpecHEP == InitHEP /\ [][NextHEP]_vars

(***************************************************************************)
(* Properties of construction and generation.                              *)
(***************************************************************************)
Generated == last.op = "generate_data" /\ last.outcome = "ok"

HasDescriptor(l, name) == \E i \in DOMAIN l : l[i].name = name

\* A point operator applied when constructed, the identity otherwise.
Rotated(points) ==
    IF self.systematic_rotation # None
    THEN RotationApply(self.systematic_rotation, points) ELSE points

Translated(points) ==
    IF self.systematic_translation # None
    THEN TranslationApply(self.systematic_translation, points) ELSE points

Scaled(points) ==
    IF self.systematic_scaling # None
    THEN ScalingApply(self.systematic_scaling, points) ELSE points

\* The log messages of the constructed operators, in the order Rotation,
\* Translation, Scaling, Box.
OrderedLog ==
    (IF self.systematic_rotation # None THEN <<"Rotation Systematics Applied!">> ELSE <<>>)
    \o (IF self.systematic_translation # None THEN <<"Translation Systematics Applied!">> ELSE <<>>)
    \o (IF self.systematic_scaling # None THEN <<"Scaling Systematics Applied!">> ELSE <<>>)
    \o (IF self.systematic_box # None THEN <<"Box Systematics Applied!">> ELSE <<>>)

\* The frames before Box: the original samples, and the biased samples rotated,
\* then translated, then scaled, signal rows first.
OriginalFrame == ConcatFrame(last.draws.signal_data, last.draws.background_data)

BiasedFrame ==
    ConcatFrame(Scaled(Translated(Rotated(last.draws.biased_signal_data))),
                Scaled(Translated(Rotated(last.draws.biased_background_data))))

\* C1: whatever the order of the descriptors in the systematics list, a completed
\* generate_data applies the constructed operators to the biased signal and
\* background points in the order Rotation, Translation, Scaling, and applies Box
\* last, to the concatenated original and biased frames.
C1_FixedOrder ==
    Generated =>
        /\ last.log = <<"Data Generated!">> \o OrderedLog
        /\ <<last.generated_dataframe, last.biased_dataframe>> =
              IF self.systematic_box # None
              THEN BoxApply(self.systematic_box, OriginalFrame, BiasedFrame)
              ELSE <<OriginalFrame, BiasedFrame>>

\* All four operators constructed from a list that names them in the reverse of
\* the order of application, and applied.
C1_Witness ==
    /\ Generated
    /\ Len(settings.systematics) = 4
    /\ settings.systematics[1].name = SYSTEMATIC_BOX
    /\ settings.systematics[2].name = SYSTEMATIC_SCALING
    /\ settings.systematics[3].name = SYSTEMATIC_TRANSLATION
    /\ settings.systematics[4].name = SYSTEMATIC_ROTATION
    /\ Len(last.log) = 5
    /\ Len(last.biased_dataframe) > 0

\* The permutations of 1..n.
RowOrders(n) == {p \in [1..n -> 1..n] : \A i, j \in 1..n : i # j => p[i] # p[j]}

\* data and labels are one rearrangement of the rows of frame: every position holds
\* the point of a row of the frame together with that row's label.
Aligned(data, labels, frame) ==
    /\ Len(data) = Len(frame)
    /\ Len(labels) = Len(frame)
    /\ \E p \in RowOrders(Len(frame)) :
          \A i \in 1..Len(frame) : data[i] = frame[p[i]].x /\ labels[i] = frame[p[i]].y

\* The seeds the alignment of two shuffle calls is checked for.
MaxSeed == 34

\* C3: data and labels shuffled by two calls with one seed stay aligned: after
\* generate_data the label at each position of the original and of the biased set
\* is the label of the row now at that position; and so for every seed.
C3_ShuffleAligned ==
    Generated =>
        /\ Aligned(self.generated_data.rows, self.generated_labels.values,
                   last.generated_dataframe)
        /\ Aligned(self.biased_data.rows, self.biased_labels.values,
                   last.biased_dataframe)
        /\ \A seed \in 0..MaxSeed :
              Aligned(shuffle(DataOf(last.biased_dataframe), seed),
                      shuffle(LabelsOf(last.biased_dataframe), seed),
                      last.biased_dataframe)

\* Two rows of different points and labels, moved by the shuffle.
C3_Witness ==
    /\ Generated
    /\ Len(last.biased_dataframe) = 2
    /\ last.biased_dataframe[1].x # last.biased_dataframe[2].x
    /\ last.biased_dataframe[1].y # last.biased_dataframe[2].y
    /\ self.biased_data.rows[1] = last.biased_dataframe[2].x
    /\ self.biased_labels.values[1] = last.biased_dataframe[2].y

\* Every row of `rows` lies in the box.
AllInBox(rows) ==
    \A i \in DOMAIN rows : InBox(self.systematic_box, [x |-> rows[i]])

\* C5: with a Box operator constructed, generate_data leaves an original and a
\* biased frame of the same number of rows, every row of either within
\* box_length / 2 of the box center on each axis.
C5_BoxFrames ==
    (Generated /\ self.systematic_box # None) =>
        /\ Len(self.generated_data.rows) = Len(self.biased_data.rows)
        /\ Len(self.generated_labels.values) = Len(self.biased_labels.values)
        /\ AllInBox(self.generated_data.rows)
        /\ AllInBox(self.biased_data.rows)

\* The Box dropped a row and kept a row.
C5_Witness ==
    /\ Generated
    /\ self.systematic_box # None
    /\ Len(self.generated_data.rows) = 1
    /\ Len(last.draws.signal_data) + Len(last.draws.background_data) = 2

\* A descriptor that carries a disabling parameter.
Disabling(systematic) ==
    \/ systematic.name = SYSTEMATIC_SCALING /\ systematic.scaling_factor <= 1
    \/ systematic.name = SYSTEMATIC_ROTATION /\ systematic.rotation_degree = 0
    \/ systematic.name = SYSTEMATIC_BOX /\ systematic.box_l <= 1

\* The list l without its i-th descriptor.
Without(l, i) == SubSeq(l, 1, i - 1) \o SubSeq(l, i + 1, Len(l))

\* The data and labels of a generator.
Output(obj) == <<obj.generated_data, obj.generated_labels, obj.biased_data, obj.biased_labels>>

\* The data and labels of construct then generate_data on the settings s and the
\* samples d.
Pipeline(s, d) ==
    Output(generate_data(variant, DataGeneratorInit(variant, s).self,
                         DataGeneratorInit(variant, s).settings, d).self)

\* C6: a descriptor with a disabling parameter changes nothing: construct then
\* generate_data on the settings without it, with the same samples, produces the
\* same original and biased data and labels.
C6_DisabledIsAbsent ==
    Generated =>
        \A i \in DOMAIN settings.systematics :
            Disabling(settings.systematics[i]) =>
                Pipeline([settings EXCEPT !.systematics = Without(@, i)], last.draws)
                    = Output(self)

\* A disabled Box beside an enabled Translation, with a row outside the box it
\* would have made.
C6_Witness ==
    /\ Generated
    /\ Len(settings.systematics) = 2
    /\ settings.systematics[1].name = SYSTEMATIC_BOX
    /\ Disabling(settings.systematics[1])
    /\ self.systematic_translation # None
    /\ Len(self.biased_data.rows) = 2

\* C7: after construct the Scaling, Rotation and Box operators are constructed
\* only from a descriptor that satisfies its enablement rule, the Translation
\* operator exactly when a Translation descriptor is present, and none from an
\* empty list.
C7_Enablement ==
    phase = "configured" =>
        LET l == settings.systematics
        IN  /\ self.systematic_scaling # None =>
                  \E i \in DOMAIN l : /\ l[i].name = SYSTEMATIC_SCALING
                                      /\ l[i].scaling_factor > 1
            /\ self.systematic_rotation # None =>
                  \E i \in DOMAIN l : /\ l[i].name = SYSTEMATIC_ROTATION
                                      /\ l[i].rotation_degree # 0
            /\ self.systematic_box # None =>
                  \E i \in DOMAIN l : /\ l[i].name = SYSTEMATIC_BOX
                                      /\ l[i].box_l > 1
            /\ self.systematic_translation # None <=> HasDescriptor(l, SYSTEMATIC_TRANSLATION)
            /\ l = <<>> =>
                  /\ self.systematic_scaling = None
                  /\ self.systematic_rotation = None
                  /\ self.systematic_box = None
                  /\ self.systematic_translation = None

\* A disabled Scaling descriptor and a Translation of magnitude 0: only the
\* Translation operator is constructed.
C7_Witness ==
    /\ phase = "configured"
    /\ last.op = "construct"
    /\ Len(settings.systematics) = 2
    /\ settings.systematics[1] = [name |-> SYSTEMATIC_SCALING, scaling_factor |-> 1]
    /\ settings.systematics[2].name = SYSTEMATIC_TRANSLATION
    /\ settings.systematics[2].z_magnitude = 0
    /\ self.systematic_scaling = None
    /\ self.systematic_translation # None

\* C9: construct aborts the process when the background distribution is neither
\* Gaussian nor Gamma, and when the signal distribution is not derived from the
\* background and its name is not Gaussian.
C9_UnrecognizedAborts ==
    (/\ last.op = "construct"
     /\ \/ settings.background_distribution.name
              \notin {DISTRIBUTION_GAUSSIAN, DISTRIBUTION_GAMMA}
        \/ /\ ~SignalIsDerived(settings)
           /\ "signal_distribution" \in DOMAIN settings
           /\ settings.signal_distribution.name # DISTRIBUTION_GAUSSIAN)
    => phase = "aborted"

\* C10: generate_data called with the signal or the background distribution not
\* loaded, or the systematics not loaded, aborts before any sample is drawn, and
\* the generated and biased data and labels stay unset.
C10_GenerateNeedsConfiguration ==
    (/\ last.op = "generate_data"
     /\ \/ self.signal_distribution = None
        \/ self.background_distribution = None
        \/ ~self.systematics_loaded)
    => /\ phase = "aborted"
       /\ last.outcome = "exit"
       /\ last.sampled = 0
       /\ Output(self) = <<None, None, None, None>>

\* generate_data called on a generator whose signal distribution was left unset.
C10_Witness ==
    /\ last.op = "generate_data"
    /\ self.signal_distribution = None
    /\ self.background_distribution # None
    /\ phase = "aborted"

\* C8: get_data or save_data called before a generate_data call has completed
\* aborts the run: nothing is returned, no directory is made and no file written.
C8_AccessBeforeGeneration ==
    (/\ last.op \in {"get_data", "save_data"}
     /\ self.generated_data = None)
    => /\ phase = "aborted"
       /\ last.outcome = "exit"
       /\ "original_set" \notin DOMAIN last
       /\ "biased_set" \notin DOMAIN last
       /\ fs = [dirs |-> {}, files |-> <<>>]

\* save_data called on a configured generator that has generated nothing.
C8_Witness ==
    /\ last.op = "save_data"
    /\ self.systematics_loaded
    /\ self.signal_distribution # None
    /\ self.generated_data = None
    /\ phase = "aborted"

\* C4: the event counts computed by construct satisfy
\* n_signal_events + n_background_events <= N and
\* N - (n_signal_events + n_background_events) < 2.
C4_CountsWithinTotal ==
    phase = "configured" =>
        /\ self.number_of_signal_events + self.number_of_background_events
              <= self.total_number_of_events
        /\ self.total_number_of_events
              - (self.number_of_signal_events + self.number_of_background_events) < 2


(***************************************************************************)
(* Properties of the weighted partitioner.                                 *)
(***************************************************************************)
\* C2: every carved-out subset whose signal and background weight sums are both
\* nonzero has, once rescaled, signal weights summing to the reference total S
\* and background weights summing to the reference total B: the train split,
\* the mu-calibration fold, and each test fold before mu is applied.
C2_Reweighted ==
    /\ (/\ hep.pc = "train_saved"
        /\ hep.subset_signal_weight # <<0, 1>>
        /\ hep.subset_background_weight # <<0, 1>>)
       => /\ np_sum(hep.train_weights, hep.train_label, 1) = hep.total_signal_weight
          /\ np_sum(hep.train_weights, hep.train_label, 0) = hep.total_background_weight
    /\ (/\ hep.pc \in {"folds", "done"}
        /\ hep.signal_mu_calc # <<0, 1>>
        /\ hep.background_mu_calc # <<0, 1>>)
       => /\ np_sum(hep.mu_calc_weights, hep.mu_calc_label, 1) = hep.total_signal_weight
          /\ np_sum(hep.mu_calc_weights, hep.mu_calc_label, 0)
                = hep.total_background_weight
    /\ (/\ hep.pc = "folds"
        /\ hep.i > 0
        /\ hep.subset_signal_weight # <<0, 1>>
        /\ hep.subset_background_weight # <<0, 1>>)
       => /\ hep.signal = hep.total_signal_weight
          /\ hep.background = hep.total_background_weight

\* A test fold with two signal rows of different weights has been rescaled by
\* a factor other than one and then multiplied by a mu other than one.
C2_Witness ==
    /\ hep.pc = "folds"
    /\ hep.i > 0
    /\ hep.subset_signal_weight \notin {<<0, 1>>, hep.total_signal_weight}
    /\ hep.subset_background_weight \notin {<<0, 1>>, hep.total_background_weight}
    /\ hep.mu # <<1, 1>>
    /\ \E j, k \in DOMAIN hep.test_weights :
          /\ hep.test_label[j] = 1
          /\ hep.test_label[k] = 1
          /\ hep.test_weights[j] # hep.test_weights[k]
    /\ hep.signal = hep.total_signal_weight

(***************************************************************************)
(* Further properties of generation.                                       *)
(***************************************************************************)
\* C11: every completed generate_data call draws the biased signal and the
\* biased background points with sampling calls of their own (four
\* generate_points calls in all), of the same sizes as the original ones:
\* n_signal_events and n_background_events.
C11_IndependentDraws ==
    (last.op = "generate_data" /\ last.outcome = "ok")
    => /\ last.sampled = 4
       /\ Len(last.draws.signal_data) = self.number_of_signal_events
       /\ Len(last.draws.biased_signal_data) = self.number_of_signal_events
       /\ Len(last.draws.background_data) = self.number_of_background_events
       /\ Len(last.draws.biased_background_data) = self.number_of_background_events

\* The number of labels equal to y.
CountLabel(labels, y) == Cardinality({i \in DOMAIN labels : labels[i] = y})

\* A stored set holds n_signal_events rows labelled 1 and n_background_events
\* rows labelled 0, no other label, and as many rows as labels.
WholeSet(data, labels) ==
    /\ CountLabel(labels.values, 1) = self.number_of_signal_events
    /\ CountLabel(labels.values, 0) = self.number_of_background_events
    /\ \A i \in DOMAIN labels.values : labels.values[i] \in {0, 1}
    /\ Len(data.rows) = Len(labels.values)

\* C13: after a generate_data with no Box operator constructed, the original and
\* the biased set each hold exactly n_signal_events rows labelled 1 and
\* n_background_events rows labelled 0, every label is 0 or 1, and each set has
\* as many data rows as labels.
C13_WholeSets ==
    (Generated /\ self.systematic_box = None)
    => /\ WholeSet(self.generated_data, self.generated_labels)
       /\ WholeSet(self.biased_data, self.biased_labels)

\* A generation without Box of one signal row and one background row, under
\* a constructed point operator.
C13_Witness ==
    /\ Generated
    /\ self.systematic_box = None
    /\ self.systematic_scaling # None
    /\ self.number_of_signal_events = 1
    /\ self.number_of_background_events = 1
    /\ Len(self.biased_data.rows) = 2
    /\ CountLabel(self.biased_labels.values, 1) = 1

\* The frames generate_data builds from the original and the biased background
\* points bg and biased_bg and the sampled signal points.
FramesOn(bg, biased_bg) ==
    IF self.systematic_box # None
    THEN BoxApply(self.systematic_box,
                  ConcatFrame(last.draws.signal_data, bg),
                  ConcatFrame(Scaled(Translated(Rotated(last.draws.biased_signal_data))),
                              Scaled(Translated(Rotated(biased_bg)))))
    ELSE <<ConcatFrame(last.draws.signal_data, bg),
           ConcatFrame(Scaled(Translated(Rotated(last.draws.biased_signal_data))),
                       Scaled(Translated(Rotated(biased_bg))))>>

\* The copula was skipped: both background samples are used as drawn, the warning
\* is logged and the data is generated.
CopulaSkipped ==
    /\ <<last.generated_dataframe, last.biased_dataframe>>
         = FramesOn(last.draws.background_data, last.draws.biased_background_data)
    /\ last.log[2] = "Parameters of Gamma Distribution (alpha, beta) are not valid"
    /\ phase = "configured"
    /\ self.generated_data # None
    /\ self.biased_data # None

\* The copula was applied: both background samples are remapped, the signal
\* samples are used as drawn.
CopulaApplied ==
    <<last.generated_dataframe, last.biased_dataframe>>
      = FramesOn(CopulaRemap(last.draws.background_data, self.alpha.value, self.beta.value),
                 CopulaRemap(last.draws.biased_background_data,
                             self.alpha.value, self.beta.value))

\* C14 as stated: with apply_copula set, a generate_data with alpha or beta unset
\* skips the remap without aborting, and one with both set applies it to the
\* original and the biased background points and never to signal points.
C14_CopulaSetOrUnset ==
    (variant = "all_systematics" /\ Generated /\ self.apply_copula)
    => IF self.alpha = None \/ self.beta = None THEN CopulaSkipped ELSE CopulaApplied

\* C14 amended: the remap is skipped when alpha or beta is unset or zero, and
\* applied when both are set and nonzero.
C14_CopulaValidOrNot ==
    (variant = "all_systematics" /\ Generated /\ self.apply_copula)
    => IF Truthy(self.alpha) /\ Truthy(self.beta) THEN CopulaApplied ELSE CopulaSkipped

\* Both cases have run on a background row: a remap that moved it, under a
\* constructed Translation, or a skip for an unset beta.
C14_Witness ==
    /\ variant = "all_systematics"
    /\ Generated
    /\ self.apply_copula
    /\ self.number_of_background_events > 0
    /\ \/ /\ Truthy(self.alpha) /\ Truthy(self.beta)
          /\ self.systematic_translation # None
          /\ CopulaRemap(last.draws.background_data, self.alpha.value, self.beta.value)
                # last.draws.background_data
          /\ CopulaApplied
       \/ /\ Truthy(self.alpha) /\ self.beta = None
          /\ CopulaSkipped

\* The name of a saved file: the stem alone, or with the suffix _<file_index>.
NameFor(stem, file_index, ext) ==
    IF file_index = None
    THEN stem \o ext
    ELSE stem \o "_" \o ToString(file_index.value) \o ext

TrainDataPath(directory, file_index) ==
    directory \o <<"train", "data", NameFor("train", file_index, ".csv")>>

TrainLabelsPath(directory, file_index) ==
    directory \o <<"train", "labels", NameFor("train", file_index, ".labels")>>

TestDataPath(directory, file_index) ==
    directory \o <<"test", "data", NameFor("test", file_index, ".csv")>>

TestLabelsPath(directory, file_index) ==
    directory \o <<"test", "labels", NameFor("test", file_index, ".labels")>>

SettingsPath(directory, file_index) ==
    directory \o <<"settings", NameFor("settings", file_index, ".json")>>

\* The five files of a save_data call.
SavedPaths(directory, file_index) ==
    {TrainDataPath(directory, file_index), TrainLabelsPath(directory, file_index),
     TestDataPath(directory, file_index), TestLabelsPath(directory, file_index),
     SettingsPath(directory, file_index)}

\* C15: a save_data call that completes writes the original set to the train
\* data and labels files and the biased set to the test data and labels files,
\* under names without suffix for file_index None and with the suffix
\* _<file_index> otherwise; it leaves alone every file a call with another
\* file_index wrote into the directory, and every other file.
C15_SaveByIndex ==
    [][(last'.op = "save_data" /\ last'.outcome = "ok")
       => /\ DOMAIN fs'.files
               = DOMAIN fs.files \cup SavedPaths(last'.directory, last'.file_index)
          /\ fs'.files[TrainDataPath(last'.directory, last'.file_index)].rows
               = self.generated_data.rows
          /\ fs'.files[TrainLabelsPath(last'.directory, last'.file_index)]
               = [i \in DOMAIN self.generated_labels.values |->
                     ToString(self.generated_labels.values[i])]
          /\ fs'.files[TestDataPath(last'.directory, last'.file_index)].rows
               = self.biased_data.rows
          /\ fs'.files[TestLabelsPath(last'.directory, last'.file_index)]
               = [i \in DOMAIN self.biased_labels.values |->
                     ToString(self.biased_labels.values[i])]
          /\ \A k \in FileIndexes \ {last'.file_index} :
               \A path \in SavedPaths(last'.directory, k) \cap DOMAIN fs.files :
                 fs'.files[path] = fs.files[path]
          /\ \A path \in DOMAIN fs.files \ SavedPaths(last'.directory, last'.file_index) :
               fs'.files[path] = fs.files[path]]_vars

\* Three saves with the three file indexes stand side by side in one directory,
\* the one without suffix holding other data than the one with suffix _1.
C15_Witness ==
    /\ last.op = "save_data"
    /\ last.outcome = "ok"
    /\ \A k \in FileIndexes : SavedPaths(last.directory, k) \subseteq DOMAIN fs.files
    /\ fs.files[TestDataPath(last.directory, None)]
         # fs.files[TestDataPath(last.directory, PyInt(1))]

\* C16: once save_data has written a file, no later generate_data or save_data
\* call changes its content.
C16_ArtifactsImmutable ==
    [][\A path \in DOMAIN fs.files :
          path \in DOMAIN fs'.files /\ fs'.files[path] = fs.files[path]]_vars

\* The dictionary new is old with at most the keys of `keys` added or rewritten.
OnlyAdds(old, new, keys) ==
    /\ DOMAIN old \subseteq DOMAIN new
    /\ DOMAIN new \subseteq DOMAIN old \cup keys
    /\ \A k \in DOMAIN old \ keys : new[k] = old[k]

CenterKeys ==
    {"signal_center", "background_center", "signal_center_biased", "background_center_biased"}

\* C17 (data_generator_all_systematics.py): construct adds only box_center to the
\* configuration; a completed generate_data adds only the four centers, with
\* signal_center and background_center the per-axis means of the original point
\* sets, taken before any systematic; every other key keeps its value; get_data
\* changes no state and returns the configuration with the derived keys and
\* the data and labels of the original and the biased set.
C17_DerivedKeys ==
    [][variant = "all_systematics" =>
        /\ last'.op = "construct"
           => /\ OnlyAdds(settings, settings', {"box_center"})
              /\ last'.outcome = "ok" => "box_center" \in DOMAIN settings'
        /\ (last'.op = "generate_data" /\ last'.outcome = "ok")
           => /\ OnlyAdds(settings, settings', CenterKeys)
              /\ CenterKeys \subseteq DOMAIN settings'
              /\ settings'.signal_center = Mean(last'.draws.signal_data)
              /\ settings'.background_center = Mean(last'.draws.background_data)
        /\ (last'.op = "generate_data" /\ last'.outcome = "exit")
           => settings' = settings
        /\ last'.op = "get_data"
           => /\ UNCHANGED <<settings, self, fs>>
              /\ last'.outcome = "ok"
                 => /\ last'.settings = settings
                    /\ CenterKeys \cup {"box_center"} \subseteq DOMAIN last'.settings
                    /\ last'.original_set = [data |-> self.generated_data,
                                             labels |-> self.generated_labels]
                    /\ last'.biased_set = [data |-> self.biased_data,
                                           labels |-> self.biased_labels]]_vars

\* get_data has returned the configuration of a generation whose signal points
\* a Translation moved away from the recorded signal center.
C17_Witness ==
    /\ variant = "all_systematics"
    /\ last.op = "get_data"
    /\ last.outcome = "ok"
    /\ self.systematic_translation # None
    /\ last.settings.signal_center.n > 0
    /\ last.settings.signal_center # last.settings.signal_center_biased
    /\ last.settings.box_center = <<2, 0>>

\* C18: after construct the signal fraction and the background fraction add up
\* to one, for every p_b strictly between 0 and 1.
C18_FractionsSumToOne ==
    (phase = "configured" /\ 0 < self.pb /\ self.pb < PbScale)
    => self.ps + self.pb = PbScale

\* The end-to-end configuration but for its number of events: p_b 0.5, Gaussian
\* background with mu [0,0] and sigma [1,1], signal from background with theta
\* 0, L 2 and scale 0.3, one Translation with z_magnitude 1 and alpha 90.
EndToEnd(N) == settings = Put(get_setting(settings.case, N, 500000, 1), "box_center", <<2, 0>>)

\* C19: on the end-to-end configuration construct yields 500 signal and 500
\* background events, a signal mean of [2,0], a signal sigma of the background
\* sigma times the scale (0.3 each), and a translation vector of (0,1), so that
\* the biased signal is centred on [2,1]: each biased signal row is a signal draw
\* moved by (0,1).
C19_EndToEnd ==
    /\ (phase = "configured" /\ "box_center" \in DOMAIN settings /\ EndToEnd(1000))
       => /\ self.number_of_signal_events = 500
          /\ self.number_of_background_events = 500
          /\ self.signal_distribution.mu = <<2, 0>>
          /\ self.signal_distribution.sigma = <<3, 3>>
          /\ self.systematic_translation.translation_vector = <<0, 1>>
          /\ <<self.signal_distribution.mu[1]
                 + self.systematic_translation.translation_vector[1],
               self.signal_distribution.mu[2]
                 + self.systematic_translation.translation_vector[2]>> = <<2, 1>>
    /\ (Generated /\ settings.p_b = 500000 /\ settings.systematics[1].z_magnitude = 1
          /\ settings.total_number_of_events = 2)
       => \A i \in 1..self.number_of_signal_events :
             last.biased_dataframe[i].x =
                <<last.draws.biased_signal_data[i][1],
                  last.draws.biased_signal_data[i][2] + 1>>

\* The end-to-end configuration has been constructed.
C19_Witness ==
    /\ phase = "configured"
    /\ last.op = "construct"
    /\ "box_center" \in DOMAIN settings
    /\ EndToEnd(1000)
    /\ self.number_of_signal_events = 500

(***************************************************************************)
(* Further properties of the weighted partitioner.                         *)
(***************************************************************************)
TestFile(kind, j, ext) == Join(InputData("test", kind), "data_" \o ToString(j) \o ext)

\* The test fold j as written: its signal weights sum to mu*S and its background
\* weights to B, for the mu of its settings file.
FoldCarriesMu(j) ==
    /\ np_sum(fs.files[TestFile("weights", j, ".weights")],
              fs.files[TestFile("labels", j, ".labels")], 1)
         = FracTimes(fs.files[SettingsFile(j)].ground_truth_mu, hep.total_signal_weight)
    /\ np_sum(fs.files[TestFile("weights", j, ".weights")],
              fs.files[TestFile("labels", j, ".labels")], 0)
         = hep.total_background_weight

\* The fold j as written holds a signal row and a background row.
FoldHasBoth(j) ==
    /\ \E k \in DOMAIN fs.files[TestFile("labels", j, ".labels")] :
          fs.files[TestFile("labels", j, ".labels")][k] = 1
    /\ \E k \in DOMAIN fs.files[TestFile("labels", j, ".labels")] :
          fs.files[TestFile("labels", j, ".labels")][k] = 0

\* The train split and the mu-calibration fold are written as rescaled, without
\* any factor mu: a subset holding signal rows carries the signal total S itself.
NoMuOutsideTestFolds ==
    /\ hep.pc \in {"train_saved", "cut", "folds", "done"}
       => /\ fs.files[Join(InputData("train", "weights"), "data.weights")]
               = hep.train_weights
          /\ np_sum(hep.train_weights, hep.train_label, 1) \in
               {hep.total_signal_weight, <<0, 1>>}
    /\ hep.pc \in {"folds", "done"}
       => /\ fs.files[Join(InputData("test", "weights"), "data_mu_calc.weights")]
               = hep.mu_calc_weights
          /\ np_sum(hep.mu_calc_weights, hep.mu_calc_label, 1) \in
               {hep.total_signal_weight, <<0, 1>>}

\* C12 as stated: every test fold written has signal weights summing to mu*S and
\* background weights summing to B; the train split and the mu-calibration fold
\* are never multiplied by mu.
C12_MuOnSignalOnly ==
    /\ hep.pc \in {"folds", "done"} => \A j \in 0..(hep.i - 1) : FoldCarriesMu(j)
    /\ NoMuOutsideTestFolds

\* C12 amended: the same for every test fold that holds at least one signal row
\* and at least one background row.
C12_MuOnSignalOnlyNonEmpty ==
    /\ hep.pc \in {"folds", "done"}
       => \A j \in 0..(hep.i - 1) : FoldHasBoth(j) => FoldCarriesMu(j)
    /\ NoMuOutsideTestFolds

\* A fold with signal and background rows has been written under a mu other
\* than one, after a rescaling by factors other than one.
C12_Witness ==
    /\ hep.pc = "folds"
    /\ hep.i > 1
    /\ FoldHasBoth(hep.i - 1)
    /\ fs.files[SettingsFile(hep.i - 1)].ground_truth_mu # <<1, 1>>
    /\ hep.subset_signal_weight # hep.total_signal_weight
    /\ hep.subset_background_weight # hep.total_background_weight
    /\ FoldCarriesMu(hep.i - 1)

\* The folds are ten, all of one size.
TenEqual(folds) ==
    /\ Len(folds) = 10
    /\ \A j \in DOMAIN folds : Len(folds[j]) = Len(folds[1])

\* C20: whatever the length of the test set, it is cut into exactly 10 parts of
\* equal size; the first becomes the mu-calibration fold and each of the nine
\* others is saved as a test fold of its own.
C20_TenEqualParts ==
    /\ hep.pc # "ValueError"
    /\ hep.pc = "cut"
       => /\ TenEqual(hep.test_dfs)
          /\ TenEqual(hep.test_weights_)
          /\ TenEqual(hep.test_label_)
    /\ hep.pc \in {"folds", "done", "FileNotFoundError"}
       => /\ TenEqual(<<hep.mu_calc_set>> \o hep.test_dfs)
          /\ fs.files[Join(InputData("test", "data"), "data_mu_calc.csv")].rows
               = hep.mu_calc_set
    /\ hep.pc = "done"
       => \A j \in 1..9 :
             /\ TestFile("data", j - 1, ".csv") \in DOMAIN fs.files
             /\ fs.files[TestFile("data", j - 1, ".csv")].rows.data = hep.test_dfs[j]

(***************************************************************************)
(* Properties of the folds.                                                *)
(***************************************************************************)
RECURSIVE Flatten(_)
\* The folds put end to end.
Flatten(folds) == IF folds = <<>> THEN <<>> ELSE Head(folds) \o Flatten(Tail(folds))

\* The row of reference_data.csv a test row was drawn from.
ReferenceRow(id) == fs.files[ReferenceFile][id]

\* Fold k of the data, of the weights and of the labels hold the same rows in
\* the same order.
FoldsAligned ==
    /\ Len(hep.test_weights_) = Len(hep.test_dfs)
    /\ Len(hep.test_label_) = Len(hep.test_dfs)
    /\ \A k \in DOMAIN hep.test_dfs :
         /\ Len(hep.test_weights_[k]) = Len(hep.test_dfs[k])
         /\ Len(hep.test_label_[k]) = Len(hep.test_dfs[k])
         /\ \A p \in DOMAIN hep.test_dfs[k] :
              /\ hep.test_weights_[k][p] = ReferenceRow(hep.test_dfs[k][p]).Weight
              /\ hep.test_label_[k][p] = ReferenceRow(hep.test_dfs[k][p]).Label

\* The folds are contiguous ranges that together hold every test row once.
FoldsPartition ==
    /\ Flatten(hep.test_dfs) = hep.test_df
    /\ Flatten(hep.test_weights_) = hep.test_weights
    /\ Flatten(hep.test_label_) = hep.test_label
    /\ \A p, q \in DOMAIN hep.test_df : hep.test_df[p] = hep.test_df[q] => p = q

\* C21: for every test-set length n >= 10 the folds cut from the test data, the
\* test weights and the test labels cover the same contiguous index ranges:
\* fold k of each holds the same rows in the same order, the folds are pairwise
\* disjoint, and together they contain every test row exactly once.
C21_FoldsAligned ==
    hep.pc = "cut" /\ Len(hep.test_df) >= 10 => FoldsAligned /\ FoldsPartition

\* The folds of a test set whose length is no multiple of ten have been cut,
\* from a split that is not the identity order.
C21_Witness ==
    /\ hep.pc = "cut"
    /\ Len(hep.test_df) % Parts # 0
    /\ Len(hep.test_dfs) > Parts
    /\ hep.test_df[1] # 1
    /\ FoldsAligned
    /\ FoldsPartition

(***************************************************************************)
(* Properties of repeated descriptors.                                     *)
(***************************************************************************)
\* The descriptor satisfies the enablement rule of its kind.
SatisfiesRule(systematic) ==
    CASE systematic.name = SYSTEMATIC_TRANSLATION -> TRUE
      [] systematic.name = SYSTEMATIC_SCALING -> systematic.scaling_factor > 1
      [] systematic.name = SYSTEMATIC_BOX -> systematic.box_l > 1
      [] systematic.name = SYSTEMATIC_ROTATION -> systematic.rotation_degree # 0

\* The positions of the descriptors of a kind that satisfy its rule.
EnabledAt(l, name) == {i \in DOMAIN l : l[i].name = name /\ SatisfiesRule(l[i])}

\* The last of them.
LastEnabled(l, name) == CHOOSE i \in EnabledAt(l, name) : \A j \in EnabledAt(l, name) : j <= i

\* The operator of a kind is the one its descriptor d describes.
BuiltFrom(obj, d) ==
    CASE d.name = SYSTEMATIC_TRANSLATION ->
           /\ obj.systematic_translation # None
           /\ obj.systematic_translation.translation_vector
                = <<CosDeg(d.alpha) * d.z_magnitude, SinDeg(d.alpha) * d.z_magnitude>>
      [] d.name = SYSTEMATIC_SCALING ->
           /\ obj.systematic_scaling # None
           /\ obj.systematic_scaling.scaling_vector = <<d.scaling_factor, d.scaling_factor>>
      [] d.name = SYSTEMATIC_BOX ->
           /\ obj.systematic_box # None
           /\ obj.systematic_box.box_length = d.box_l
      [] d.name = SYSTEMATIC_ROTATION ->
           /\ obj.systematic_rotation # None
           /\ obj.systematic_rotation.rotation_degree = d.rotation_degree

\* No operator of the kind.
Unbuilt(obj, name) ==
    CASE name = SYSTEMATIC_TRANSLATION -> obj.systematic_translation = None
      [] name = SYSTEMATIC_SCALING -> obj.systematic_scaling = None
      [] name = SYSTEMATIC_BOX -> obj.systematic_box = None
      [] name = SYSTEMATIC_ROTATION -> obj.systematic_rotation = None

\* C22: when the systematics list holds several descriptors of the same kind,
\* the operator left after construct is built from the last descriptor of that
\* kind that satisfies its enablement rule; a later descriptor of that kind with
\* a disabling parameter does not unset an operator built from an earlier one.
C22_LastEnabledWins ==
    phase = "configured" =>
        \A name \in SystematicKinds :
            IF EnabledAt(settings.systematics, name) = {}
            THEN Unbuilt(self, name)
            ELSE BuiltFrom(self, settings.systematics[LastEnabled(settings.systematics, name)])

\* Three Scaling descriptors, factors 2, 3 and 1 in that order: the operator
\* left scales by 3.
C22_Witness ==
    /\ phase = "configured"
    /\ last.op = "construct"
    /\ settings.systematics = <<[name |-> SYSTEMATIC_SCALING, scaling_factor |-> 2],
                                [name |-> SYSTEMATIC_SCALING, scaling_factor |-> 3],
                                [name |-> SYSTEMATIC_SCALING, scaling_factor |-> 1]>>
    /\ self.systematic_scaling # None
    /\ self.systematic_scaling.scaling_vector = <<3, 3>>

(***************************************************************************)
(* Properties of the result fields.                                        *)
(***************************************************************************)
\* None of the four result fields is set.
AllUnset(obj) ==
    /\ obj.generated_data = None
    /\ obj.generated_labels = None
    /\ obj.biased_data = None
    /\ obj.biased_labels = None

\* All four are set, each frame with as many rows as its label array.
AllSet(obj) ==
    /\ obj.generated_data # None
    /\ obj.generated_labels # None
    /\ obj.biased_data # None
    /\ obj.biased_labels # None
    /\ Len(obj.generated_data.rows) = Len(obj.generated_labels.values)
    /\ Len(obj.biased_data.rows) = Len(obj.biased_labels.values)

\* The four fields hold what the two frames of the last call hold.
HoldsFrames(obj, generated, biased) ==
    /\ obj.generated_data.rows = shuffle([i \in DOMAIN generated |-> generated[i].x], ShuffleSeed)
    /\ obj.generated_labels.values
         = shuffle([i \in DOMAIN generated |-> generated[i].y], ShuffleSeed)
    /\ obj.biased_data.rows = shuffle([i \in DOMAIN biased |-> biased[i].x], ShuffleSeed)
    /\ obj.biased_labels.values = shuffle([i \in DOMAIN biased |-> biased[i].y], ShuffleSeed)

\* What one call does to the four fields.
ResultFieldsStep ==
    /\ (last'.op = "generate_data" /\ last'.outcome = "ok")
       => /\ AllSet(self')
          /\ HoldsFrames(self', last'.generated_dataframe, last'.biased_dataframe)
    /\ last'.op \in {"get_data", "save_data"} => Output(self') = Output(self)

\* C23: in every state reachable by any sequence of generate_data, get_data and
\* save_data calls on a constructed generator, the four result fields (original
\* data, original labels, biased data, biased labels) are either all unset or
\* all set, and when set each data frame has as many rows as its label array;
\* every completed generate_data call replaces all four, and get_data and
\* save_data change none of them.
C23_ResultFields ==
    /\ [](AllUnset(self) \/ AllSet(self))
    /\ [][ResultFieldsStep]_vars

\* A second generate_data, after a save of the first, has left four fields that
\* differ from the saved ones, a Box having dropped a row.
C23_Witness ==
    /\ last.op = "generate_data"
    /\ last.outcome = "ok"
    /\ AllSet(self)
    /\ self.systematic_box # None
    /\ Len(self.generated_data.rows) = 1
    /\ TrainDataPath(<<"D">>, None) \in DOMAIN fs.files
    /\ fs.files[TrainDataPath(<<"D">>, None)].rows # self.generated_data.rows

(***************************************************************************)
(* Properties of the signal distribution.                                  *)
(***************************************************************************)
\* The signal distribution is the one derived from the background b, and
\* box_center its mean.
DerivedFrom(obj, s, b) ==
    /\ obj.signal_distribution # None
    /\ obj.signal_distribution.name = DISTRIBUTION_GAUSSIAN
    /\ obj.signal_distribution.mu
         = <<b.mu[1] + s.L * CosDeg(s.theta), b.mu[2] + s.L * SinDeg(s.theta)>>
    /\ obj.signal_distribution.sigma
         = [i \in DOMAIN b.sigma |-> (b.sigma[i] * s.signal_sigma_scale) \div 10]
    /\ s.box_center = obj.signal_distribution.mu

\* The signal distribution is the one the entry d names, and box_center its
\* mean; none and [0, 0] when d is not Gaussian.
ReadFrom(obj, s, d) ==
    IF d.name = DISTRIBUTION_GAUSSIAN
    THEN /\ obj.signal_distribution # None
         /\ obj.signal_distribution.name = DISTRIBUTION_GAUSSIAN
         /\ obj.signal_distribution.mu = d.mu
         /\ obj.signal_distribution.sigma = d.sigma
         /\ s.box_center = d.mu
    ELSE /\ obj.signal_distribution = None
         /\ s.box_center = <<0, 0>>

\* C24: construct derives the signal distribution from the background (and
\* records the derived signal mean as box_center) only when
\* signal_from_background is set and the background distribution is Gaussian;
\* when signal_from_background is set but the background is Gamma, construct
\* reads the explicit signal_distribution entry instead, and box_center is that
\* entry's mean if it is Gaussian and [0, 0] otherwise.
C24_SignalSource ==
    (variant = "all_systematics" /\ last.op = "construct"
     /\ settings.background_distribution.name \in {DISTRIBUTION_GAUSSIAN, DISTRIBUTION_GAMMA})
    => IF /\ settings.signal_from_background
          /\ settings.background_distribution.name = DISTRIBUTION_GAUSSIAN
       THEN /\ last.outcome = "ok"
            /\ DerivedFrom(self, settings, settings.background_distribution)
       ELSE IF "signal_distribution" \in DOMAIN settings
       THEN /\ last.outcome = "ok"
            /\ ReadFrom(self, settings, settings.signal_distribution)
       ELSE /\ last.outcome = "KeyError"
            /\ self.signal_distribution = None
            /\ "box_center" \notin DOMAIN settings

\* signal_from_background set on a Gamma background: the signal is the explicit
\* Gaussian entry, whose mean is not the one a derivation would give.
C24_Witness ==
    /\ variant = "all_systematics"
    /\ last.op = "construct"
    /\ last.outcome = "ok"
    /\ settings.signal_from_background
    /\ settings.background_distribution.name = DISTRIBUTION_GAMMA
    /\ settings.signal_distribution.name = DISTRIBUTION_GAUSSIAN
    /\ self.signal_distribution.mu = settings.signal_distribution.mu
    /\ settings.box_center = <<2, 1>>
    /\ settings.box_center # <<CosDeg(settings.theta) * settings.L,
                               SinDeg(settings.theta) * settings.L>>

(***************************************************************************)
(* Properties of the starting-kit settings.                                *)
(***************************************************************************)
\* The settings hold every key construct reads on its path.
HoldsKeysRead(v, s) ==
    /\ HeadKeys(v, s) \subseteq DOMAIN s
    /\ SignalKeys(v, s) \subseteq DOMAIN s
    /\ "systematics" \in DOMAIN s
    /\ \A i \in DOMAIN s.systematics :
          DescriptorKeys(s.systematics[i]) \subseteq DOMAIN s.systematics[i]

\* Construct has left both distributions and the Translation operator alone of
\* the four, and generate_data passes its checks.
OnlyTranslation(obj) ==
    /\ obj.background_distribution # None
    /\ obj.signal_distribution # None
    /\ obj.systematics_loaded
    /\ obj.systematic_translation # None
    /\ obj.systematic_scaling = None
    /\ obj.systematic_rotation = None
    /\ obj.systematic_box = None

\* The settings feed construct and generate_data.
FeedsGenerator ==
    /\ HoldsKeysRead(variant, settings)
    /\ phase # "aborted"
    /\ last.op = "construct" => phase = "configured" /\ OnlyTranslation(self)
    /\ last.op = "generate_data"
       => /\ last.outcome = "ok"
          /\ OnlyTranslation(self)
          /\ AllSet(self)

====
